---- MODULE Spec2Model ----
(***************************************************************************)
(* State-machine model of agentlog/codexlog: the `view` command (session   *)
(* resolution, flag validation, filter construction, per-line decoding of  *)
(* the two log families, the bounded event window and the three output     *)
(* formats), the chat renderer (wrapText, truncateToWidth, alignment,       *)
(* bubble placement and rendering), content decoding, session info,        *)
(* session listing, session resolution and the pager pipe.                 *)
(***************************************************************************)
EXTENDS Integers, Sequences, FiniteSets, TLC

VARIABLES
    pc,         \* position of the view command / of the function under study
    family,     \* agent type selected by getAgentType(): "codex" or "claude"
    opts,       \* view.Options as filled in by newViewCmd
    io,         \* file-system accesses performed so far
    file,       \* lines of the session file (as read by the scanner)
    pos,        \* index of the next line the scanner returns
    filters,    \* viewFilters built by buildViewFilters
    ring,       \* eventRing used when MaxEvents is set
    collected,  \* chat format: events gathered when MaxEvents <= 0
    count,      \* text format: running event counter
    out,        \* opts.Out: the items written so far
    err,        \* error returned by the command ("" is nil)
    delivered,  \* line numbers for which IterateEvents invoked its callback
    accepted,   \* line numbers whose event passed eventMatchesFilters
    pushed,     \* eventRing study: every value pushed so far
    text,       \* wrapText / truncateToWidth study: input text
    width,      \* wrapText / truncateToWidth study: width argument
    res,        \* value returned by the function under study
    args,       \* arguments of the function under study
    pager       \* pipeThroughPager: the pipe, the writer goroutine and the pager process

vars == <<pc, family, opts, io, file, pos, filters, ring, collected, count,
          out, err, delivered, accepted, pushed, text, width, res, args, pager>>

(***************************************************************************)
(* Bounds                                                                  *)
(***************************************************************************)
MaxLines == 3       \* longest session file
MaxRing == 2        \* largest MaxEvents value / ring capacity
MaxPush == 5        \* eventRing study: number of push operations
MaxText == 4        \* text study: longest input text (in tokens)
MaxWidth == 3       \* text study: largest width argument
MaxTotalWidth == 16 \* bubble study: widest terminal besides the default
MaxLineWidth == 10  \* bubble study: widest wrapped content line
MaxPadding == 3     \* bubble study: largest base padding
MaxBlocks == 2      \* content study: longest content array
MaxIdLen == 2       \* resolution study: longest session id and argument
MaxSessions == 2    \* resolution study: files under the sessions directory
MaxOutput == 3      \* pager study: longest text, in bytes
MaxPipe == 2        \* pager study: largest pipe buffer, in bytes
MaxBody == 5        \* bubble rendering: longest block text (in tokens)

\* the pipe and the two processes before pipeThroughPager is called
NoPager == [toWrite |-> 0, buf |-> 0, read |-> 0, writer |-> "none", proc |-> "none",
            readOpen |-> FALSE, writeOpen |-> FALSE]

(***************************************************************************)
(* Generic helpers                                                         *)
(***************************************************************************)
Range(s) == {s[i] : i \in 1..Len(s)}

Min(a, b) == IF a < b THEN a ELSE b

SeqsUpTo(S, n) == UNION {[1..k -> S] : k \in 0..n}

\* the last n elements of s
LastN(s, n) == SubSeq(s, Len(s) - Min(n, Len(s)) + 1, Len(s))

IsStrictlyIncreasing(s) == \A i \in 1..Len(s) : \A j \in 1..Len(s) : i < j => s[i] < s[j]

(***************************************************************************)
(* Timestamps.  A timestamp string is modelled by an integer: TsAbsent is  *)
(* the empty string, TsBad a non-empty string neither RFC3339 profile      *)
(* accepts, and a positive number a well-formed instant.  The zero         *)
(* time.Time is 0.                                                         *)
(***************************************************************************)
TsAbsent == 0
TsBad == -1

parseTimestamp(value) ==
    IF value = TsAbsent THEN [err |-> "missing timestamp", ts |-> 0]
    ELSE IF value = TsBad THEN [err |-> "parse timestamp", ts |-> 0]
    ELSE [err |-> "", ts |-> value]

(***************************************************************************)
(* Session file lines.  One record shape serves both families:             *)
(*   json    the line unmarshals into the record envelope                  *)
(*   ts      envelope "timestamp"                                          *)
(*   type    envelope "type"                                               *)
(*   payload "payload" (codex) / "message" (claude): none, ok, or bad      *)
(*           (present but not unmarshalling into the payload struct)       *)
(*   ptype   payload "type" (codex: originator for session_meta)           *)
(*   role    payload "role"                                                *)
(*   id      top-level "id" (legacy codex metadata shape)                  *)
(*   pts     payload "timestamp" (codex session_meta)                      *)
(***************************************************************************)
Line(json, ts, type, payload, ptype, role, id, pts) ==
    [json |-> json, ts |-> ts, type |-> type, payload |-> payload,
     ptype |-> ptype, role |-> role, id |-> id, pts |-> pts]

CodexLines ==
    { Line(TRUE, 1, "session_meta", "ok", "codex_cli", "", "", 1),
      Line(TRUE, 2, "response_item", "ok", "message", "user", "", TsAbsent),
      Line(TRUE, 3, "response_item", "ok", "function_call", "", "", TsAbsent),
      Line(TRUE, 4, "event_msg", "ok", "token_count", "", "", TsAbsent),
      Line(FALSE, TsAbsent, "", "none", "", "", "", TsAbsent),
      Line(TRUE, TsBad, "response_item", "ok", "message", "user", "", TsAbsent) }

ClaudeLines ==
    { Line(TRUE, 1, "user", "ok", "", "user", "", TsAbsent),
      Line(TRUE, 2, "assistant", "ok", "", "assistant", "", TsAbsent),
      Line(TRUE, TsAbsent, "summary", "none", "", "", "", TsAbsent),
      Line(FALSE, TsAbsent, "", "none", "", "", "", TsAbsent),
      Line(TRUE, TsBad, "user", "ok", "", "user", "", TsAbsent),
      Line(TRUE, 2, "assistant", "bad", "", "", "", TsAbsent) }

Families == {"codex", "claude"}

LinesOf(fam) == IF fam = "codex" THEN CodexLines ELSE ClaudeLines

Files(fam) == SeqsUpTo(LinesOf(fam), MaxLines)

(***************************************************************************)
(* Events.  `line` is the event's line number in the file and `raw` the    *)
(* line itself, verbatim.                                                  *)
(***************************************************************************)
Event(i, l, ts, role, ptype) ==
    [line |-> i, ts |-> ts, kind |-> l.type, role |-> role, ptype |-> ptype, raw |-> l]

NoEvent == [line |-> 0, ts |-> 0, kind |-> "", role |-> "", ptype |-> "",
            raw |-> Line(FALSE, TsAbsent, "", "none", "", "", "", TsAbsent)]

\* Family A: internal/parser parseEvent
codexParseEvent(i, l) ==
    IF ~l.json THEN [err |-> "unmarshal record", event |-> NoEvent]
    ELSE IF l.ts # TsAbsent /\ parseTimestamp(l.ts).err # ""
    THEN [err |-> parseTimestamp(l.ts).err, event |-> NoEvent]
    ELSE LET ts == IF l.ts = TsAbsent THEN 0 ELSE parseTimestamp(l.ts).ts IN
         CASE l.type = "session_meta" ->
                IF l.payload # "ok"
                THEN [err |-> "unmarshal session_meta payload", event |-> NoEvent]
                ELSE [err |-> "", event |-> Event(i, l, ts, "", l.ptype)]
           [] l.type = "response_item" ->
                IF l.payload # "ok"
                THEN [err |-> "unmarshal response payload", event |-> NoEvent]
                ELSE [err |-> "", event |-> Event(i, l, ts, l.role, l.ptype)]
           [] l.type = "event_msg" ->
                IF l.payload # "ok"
                THEN [err |-> "unmarshal event_msg payload", event |-> NoEvent]
                ELSE [err |-> "", event |-> Event(i, l, ts, "", l.ptype)]
           [] l.type = "turn_context" ->
                IF l.payload # "ok"
                THEN [err |-> "unmarshal turn_context payload", event |-> NoEvent]
                ELSE [err |-> "", event |-> Event(i, l, ts, "", "turn_context")]
           [] OTHER -> [err |-> "", event |-> Event(i, l, ts, "", "")]

\* Family B: internal/claude parseEvent
claudeParseEvent(i, l) ==
    IF ~l.json THEN [err |-> "unmarshal entry", event |-> NoEvent]
    ELSE IF l.ts # TsAbsent /\ parseTimestamp(l.ts).err # ""
    THEN [err |-> parseTimestamp(l.ts).err, event |-> NoEvent]
    ELSE LET ts == IF l.ts = TsAbsent THEN 0 ELSE parseTimestamp(l.ts).ts IN
         IF l.type \in {"user", "assistant"} /\ l.payload # "none"
         THEN IF l.payload = "bad"
              THEN [err |-> "unmarshal message", event |-> NoEvent]
              ELSE [err |-> "", event |-> Event(i, l, ts, l.role, "")]
         ELSE [err |-> "", event |-> Event(i, l, ts, "", "")]

parseEvent(fam, i, l) ==
    IF fam = "codex" THEN codexParseEvent(i, l) ELSE claudeParseEvent(i, l)

(***************************************************************************)
(* ReadSessionMeta                                                         *)
(***************************************************************************)
NoMeta == [ok |-> FALSE, err |-> "", startedAt |-> 0]

\* Family A: tryParseMeta.  For a record of another kind the legacy shape is
\* tried: a top-level id, and the top-level timestamp or, when that is empty,
\* the event's (zero) time formatted back to text, which parses again.
tryParseMeta(i, l) ==
    LET parsed == codexParseEvent(i, l) IN
    IF parsed.err # "" THEN [ok |-> FALSE, err |-> parsed.err, startedAt |-> 0]
    ELSE IF l.type # "session_meta"
    THEN IF l.id # ""
         THEN [ok |-> TRUE, err |-> "", startedAt |-> parsed.event.ts]
         ELSE NoMeta
    ELSE LET tsValue == IF l.pts # TsAbsent THEN l.pts ELSE l.ts
             start == parseTimestamp(tsValue) IN
         IF start.err # "" THEN [ok |-> FALSE, err |-> start.err, startedAt |-> 0]
         ELSE [ok |-> TRUE, err |-> "", startedAt |-> start.ts]

RECURSIVE codexReadSessionMeta(_, _)
codexReadSessionMeta(f, i) ==
    IF i > Len(f) THEN [ok |-> FALSE, err |-> "session_meta record not found", startedAt |-> 0]
    ELSE LET m == tryParseMeta(i, f[i]) IN
         IF m.err # "" THEN [ok |-> FALSE, err |-> "parse session_meta", startedAt |-> 0]
         ELSE IF m.ok THEN m
         ELSE codexReadSessionMeta(f, i + 1)

\* Family B: the first entry that decodes and carries a timestamp
RECURSIVE claudeReadSessionMeta(_, _)
claudeReadSessionMeta(f, i) ==
    IF i > Len(f) THEN [ok |-> FALSE, err |-> "no valid entries found in session file", startedAt |-> 0]
    ELSE LET parsed == claudeParseEvent(i, f[i]) IN
         IF parsed.err # "" \/ parsed.event.ts = 0
         THEN claudeReadSessionMeta(f, i + 1)
         ELSE [ok |-> TRUE, err |-> "", startedAt |-> parsed.event.ts]

ReadSessionMeta(fam, f) ==
    IF fam = "codex" THEN codexReadSessionMeta(f, 1) ELSE claudeReadSessionMeta(f, 1)

(***************************************************************************)
(* IterateEvents: what the scan loop does with one line.                   *)
(*   "call"  the callback is invoked with the decoded event                *)
(*   "abort" the call returns the decode error                             *)
(*   "skip"  the line is passed over                                       *)
(***************************************************************************)
\* variant: a line that fails to decode is passed over
codexIterateLineSkipping(i, l) ==
    IF codexParseEvent(i, l).err # "" THEN "skip" ELSE "call"

codexIterateLine(i, l) ==
    IF codexParseEvent(i, l).err # "" THEN "abort" ELSE "call"

\* variant: a line that fails to decode ends the scan with its error
claudeIterateLineAborting(i, l) ==
    IF claudeParseEvent(i, l).err # "" THEN "abort" ELSE "call"

claudeIterateLine(i, l) ==
    IF claudeParseEvent(i, l).err # "" THEN "skip" ELSE "call"

IterateLine(fam, i, l) ==
    IF fam = "codex" THEN codexIterateLine(i, l) ELSE claudeIterateLine(i, l)

(***************************************************************************)
(* Filter arguments.  An argument string is the sequence of its            *)
(* comma-separated parts; <<>> is the empty string.                        *)
(***************************************************************************)
ToLower(s) ==
    CASE s = "ALL" -> "all"
      [] s = "User" -> "user"
      [] s = "Chat" -> "chat"
      [] OTHER -> s

TrimSpace(s) ==
    CASE s = " " -> ""
      [] s = " user" -> "user"
      [] s = " hi" -> "hi"
      [] OTHER -> s

parseCSV(arg) ==
    IF arg = <<>> \/ (Len(arg) = 1 /\ TrimSpace(arg[1]) = "") THEN <<>>
    ELSE LET tokens == [i \in 1..Len(arg) |-> TrimSpace(ToLower(arg[i]))]
             nonEmpty(t) == t # ""
         IN SelectSeq(tokens, nonEmpty)

\* a filter set is nil (unconstrained) or a concrete set of tokens
NilSet == [nil |-> TRUE, set |-> {}]
SetOf(S) == [nil |-> FALSE, set |-> S]

\* the shared body of parseEntryTypeArg, parseResponseTypeArg,
\* parseEventMsgTypeArg and parsePayloadRoleArg
parseArg(arg, valid, what) ==
    LET values == parseCSV(arg) IN
    IF Len(values) = 0 THEN [filter |-> NilSet, provided |-> FALSE, err |-> ""]
    ELSE IF Len(values) = 1 /\ values[1] = "all"
    THEN [filter |-> NilSet, provided |-> TRUE, err |-> ""]
    ELSE IF \E i \in 1..Len(values) : values[i] \notin valid
    THEN [filter |-> NilSet, provided |-> TRUE, err |-> what]
    ELSE [filter |-> SetOf(Range(values)), provided |-> TRUE, err |-> ""]

ValidEntryTypes == {"session_meta", "response_item", "event_msg", "turn_context"}
ValidResponseTypes == {"message", "reasoning", "function_call", "function_call_output",
                       "custom_tool_call", "custom_tool_call_output"}
ValidEventMsgTypes == {"token_count", "agent_reasoning", "user_message", "agent_message",
                       "turn_aborted"}
ValidRoles == {"user", "assistant", "tool", "system"}

ErrUnknownEntry == "unknown entry type"
ErrUnknownResponse == "unknown response type"
ErrUnknownEventMsg == "unknown event_msg type"
ErrUnknownRole == "unknown payload role"

parseEntryTypeArg(arg) == parseArg(arg, ValidEntryTypes, ErrUnknownEntry)
parseResponseTypeArg(arg) == parseArg(arg, ValidResponseTypes, ErrUnknownResponse)
parseEventMsgTypeArg(arg) == parseArg(arg, ValidEventMsgTypes, ErrUnknownEventMsg)
parsePayloadRoleArg(arg) == parseArg(arg, ValidRoles, ErrUnknownRole)

NoFilters == [entryTypes |-> NilSet, responseItemTypes |-> NilSet,
              eventMsgTypes |-> NilSet, payloadRoles |-> NilSet]

buildViewFilters(allFilter, entryArg, responseTypeArg, eventMsgTypeArg, payloadRoleArg) ==
    IF allFilter THEN [err |-> "", filters |-> NoFilters]
    ELSE LET e == parseEntryTypeArg(entryArg)
             r == parseResponseTypeArg(responseTypeArg)
             m == parseEventMsgTypeArg(eventMsgTypeArg)
             p == parsePayloadRoleArg(payloadRoleArg)
         IN
         IF e.err # "" THEN [err |-> e.err, filters |-> NoFilters]
         ELSE IF r.err # "" THEN [err |-> r.err, filters |-> NoFilters]
         ELSE IF m.err # "" THEN [err |-> m.err, filters |-> NoFilters]
         ELSE IF p.err # "" THEN [err |-> p.err, filters |-> NoFilters]
         ELSE [err |-> "",
               filters |->
                 [entryTypes |-> IF e.provided THEN e.filter ELSE SetOf({"response_item"}),
                  responseItemTypes |-> IF r.provided THEN r.filter ELSE SetOf({"message"}),
                  eventMsgTypes |-> IF m.provided THEN m.filter ELSE NilSet,
                  payloadRoles |-> IF p.provided THEN p.filter ELSE SetOf({"user", "assistant"})]]

\* view/run.go: the generic-interface version accepts every event
eventMatchesFilters(event, f) == TRUE

(***************************************************************************)
(* eventRing                                                               *)
(***************************************************************************)
newEventRing(capacity) ==
    IF capacity <= 0 THEN [data |-> <<>>, start |-> 0, length |-> 0]
    ELSE [data |-> [i \in 1..capacity |-> NoEvent], start |-> 0, length |-> 0]

\* variant: a full ring overwrites without advancing start
pushKeepingStart(r, event) ==
    IF Len(r.data) = 0 THEN r
    ELSE LET idx == (r.start + r.length) % Len(r.data)
             data == [r.data EXCEPT ![idx + 1] = event]
         IN IF r.length < Len(r.data)
            THEN [data |-> data, start |-> r.start, length |-> r.length + 1]
            ELSE [data |-> data, start |-> r.start, length |-> r.length]

\* data is indexed 0..len-1 in the source; index k is data[k + 1] here
push(r, event) ==
    IF Len(r.data) = 0 THEN r
    ELSE LET idx == (r.start + r.length) % Len(r.data)
             data == [r.data EXCEPT ![idx + 1] = event]
         IN IF r.length < Len(r.data)
            THEN [data |-> data, start |-> r.start, length |-> r.length + 1]
            ELSE [data |-> data, start |-> (r.start + 1) % Len(r.data), length |-> r.length]

\* variant: the copy starts at index 0 instead of r.start
sliceFromZero(r) ==
    IF r.length = 0 THEN <<>>
    ELSE [i \in 1..r.length |-> r.data[((i - 1) % Len(r.data)) + 1]]

slice(r) ==
    IF r.length = 0 THEN <<>>
    ELSE [i \in 1..r.length |-> r.data[((r.start + (i - 1)) % Len(r.data)) + 1]]

(***************************************************************************)
(* The view command: newViewCmd.RunE followed by view.Run                  *)
(***************************************************************************)
\* the -E, -T, -M and -R arguments of one invocation
FilterArgChoices ==
    { <<<<>>, <<>>, <<>>, <<>>>>,
      <<<<"event_msg">>, <<>>, <<" ">>, <<>>>>,
      <<<<>>, <<"ALL">>, <<>>, <<>>>>,
      <<<<>>, <<>>, <<>>, <<"User", "assistant">>>>,
      <<<<>>, <<>>, <<>>, <<"user", "unknown">>>> }

Formats == {"text", "raw", "Chat", "xml"}
MaxEventsValues == (-1)..MaxRing

FilterArgs(o) == <<o.entryArg, o.responseTypeArg, o.eventMsgTypeArg, o.payloadRoleArg>>

OptionSet ==
    {[allFilter |-> all, entryArg |-> a[1], responseTypeArg |-> a[2],
      eventMsgTypeArg |-> a[3], payloadRoleArg |-> a[4],
      format |-> fmt, maxEvents |-> max, rawFile |-> raw] :
        all \in BOOLEAN, a \in FilterArgChoices, fmt \in Formats,
        max \in MaxEventsValues, raw \in BOOLEAN}

NoOpts == [allFilter |-> FALSE, entryArg |-> <<>>, responseTypeArg |-> <<>>,
           eventMsgTypeArg |-> <<>>, payloadRoleArg |-> <<>>,
           format |-> "", maxEvents |-> 0, rawFile |-> FALSE]

ErrNotFound == "session id not found"
ErrColor == "--color and --no-color cannot be used together"
ErrExclusive == "--all cannot be used with -E, -T, -M, or -R flags"
ErrUnsupported == "unsupported format"
ErrWrite == "write error"

\* variant: only the entry-type flag is tested against --all
allWithEntryFilter(o) == o.allFilter /\ o.entryArg # <<>>

\* main.go: the exclusive-flag test of newViewCmd
allWithOtherFilter(o) ==
    o.allFilter /\ (o.entryArg # <<>> \/ o.responseTypeArg # <<>>
                    \/ o.eventMsgTypeArg # <<>> \/ o.payloadRoleArg # <<>>)

\* view.Run: formatMode
formatMode(format) ==
    IF ToLower(format) = "" THEN "text" ELSE ToLower(format)

Item(n, event) == [n |-> n, line |-> event.line, raw |-> event.raw]

\* variant: an event is numbered by its position in the file
NumberedByLine(events, numbered) ==
    [i \in 1..Len(events) |-> Item(IF numbered THEN events[i].line ELSE 0, events[i])]

\* the items written for a list of events, numbered from 1 or left unnumbered
Numbered(events, numbered) ==
    [i \in 1..Len(events) |-> Item(IF numbered THEN i ELSE 0, events[i])]

Finish(e) == /\ err' = e
             /\ pc' = "done"

\* cobra hands the parsed flags to RunE; getAgentType picks the parser
Invoke ==
    /\ pc = "idle"
    /\ \E o \in OptionSet : opts' = o
    /\ \E fam \in Families : family' = fam
    /\ pc' = "resolve"
    /\ UNCHANGED <<io, file, pos, filters, ring, collected, count, out, err,
                   delivered, accepted, pushed, text, width, res, args, pager>>

\* resolveSessionPath: the argument names a file, a file below the sessions
\* directory, or a session id looked up by walking the sessions directory
ResolveSession ==
    /\ pc = "resolve"
    /\ \E how \in {"path", "relative", "id", "missing"} :
         /\ io' = IF how \in {"path", "relative"} THEN io \cup {"stat"}
                  ELSE io \cup {"stat", "walk", "open"}
         /\ IF how = "missing" THEN Finish(ErrNotFound)
            ELSE pc' = "flags" /\ err' = err
    /\ UNCHANGED <<family, opts, file, pos, filters, ring, collected, count, out,
                   delivered, accepted, pushed, text, width, res, args, pager>>

\* newViewCmd: --color/--no-color and --all exclusivity
CheckFlags ==
    /\ pc = "flags"
    /\ \E forceColor \in BOOLEAN, forceNoColor \in BOOLEAN :
         IF forceColor /\ forceNoColor THEN Finish(ErrColor)
         ELSE IF allWithOtherFilter(opts) THEN Finish(ErrExclusive)
         ELSE pc' = "run" /\ err' = err
    /\ UNCHANGED <<family, opts, io, file, pos, filters, ring, collected, count, out,
                   delivered, accepted, pushed, text, width, res, args, pager>>

\* view.Run up to the filters: --raw copies the file, otherwise the filter
\* arguments are parsed
RunStart ==
    /\ pc = "run"
    /\ IF opts.rawFile
       THEN \E f \in Files(family) :
              /\ file' = f
              /\ io' = io \cup {"open"}
              /\ out' = [i \in 1..Len(f) |-> [n |-> 0, line |-> i, raw |-> f[i]]]
              /\ filters' = filters
              /\ Finish("")
       ELSE LET built == buildViewFilters(opts.allFilter, opts.entryArg, opts.responseTypeArg,
                                          opts.eventMsgTypeArg, opts.payloadRoleArg)
            IN /\ filters' = built.filters
               /\ IF built.err # "" THEN Finish(built.err)
                  ELSE pc' = "meta" /\ err' = err
               /\ UNCHANGED <<file, io, out>>
    /\ UNCHANGED <<family, opts, pos, ring, collected, count,
                   delivered, accepted, pushed, text, width, res, args, pager>>

\* view.Run: parser.ReadSessionMeta(opts.Path)
ReadMeta ==
    /\ pc = "meta"
    /\ \E f \in Files(family) :
         /\ file' = f
         /\ io' = io \cup {"open"}
         /\ IF ReadSessionMeta(family, f).err # ""
            THEN Finish(ReadSessionMeta(family, f).err)
            ELSE pc' = "format" /\ err' = err
    /\ UNCHANGED <<family, opts, pos, filters, ring, collected, count, out,
                   delivered, accepted, pushed, text, width, res, args, pager>>

\* view.Run: the switch on formatMode, up to the call of processEvents
SelectFormat ==
    /\ pc = "format"
    /\ IF formatMode(opts.format) \notin {"text", "raw", "chat"}
       THEN Finish(ErrUnsupported) /\ UNCHANGED <<ring, pos>>
       ELSE /\ ring' = IF formatMode(opts.format) = "chat"
                       THEN (IF opts.maxEvents > 0 THEN newEventRing(opts.maxEvents) ELSE ring)
                       ELSE (IF opts.maxEvents # 0 THEN newEventRing(opts.maxEvents) ELSE ring)
            /\ pos' = 1
            /\ pc' = "iter"
            /\ err' = err
    /\ UNCHANGED <<family, opts, io, file, filters, collected, count, out,
                   delivered, accepted, pushed, text, width, res, args, pager>>

\* the callback view.Run passes to processEvents, for an event that passed
\* the filters
Callback(event) ==
    LET mode == formatMode(opts.format) IN
    CASE mode = "text" /\ opts.maxEvents = 0 ->
           /\ out' = Append(out, Item(count + 1, event))
           /\ count' = count + 1
           /\ pos' = pos + 1
           /\ UNCHANGED <<ring, collected, err, pc>>
      [] mode = "raw" /\ opts.maxEvents = 0 ->
           \/ /\ out' = Append(out, Item(0, event))
              /\ pos' = pos + 1
              /\ UNCHANGED <<ring, collected, count, err, pc>>
           \/ /\ Finish(ErrWrite)
              /\ UNCHANGED <<ring, collected, count, out, pos>>
      [] mode = "chat" /\ opts.maxEvents <= 0 ->
           /\ collected' = Append(collected, event)
           /\ pos' = pos + 1
           /\ UNCHANGED <<ring, count, out, err, pc>>
      [] OTHER ->
           /\ ring' = push(ring, event)
           /\ pos' = pos + 1
           /\ UNCHANGED <<collected, count, out, err, pc>>

\* one turn of the scan loop of IterateEvents, with the processEvents wrapper
IterateStep ==
    /\ pc = "iter"
    /\ pos <= Len(file)
    /\ LET todo == IterateLine(family, pos, file[pos])
           event == parseEvent(family, pos, file[pos]).event
       IN CASE todo = "abort" ->
                 /\ Finish(parseEvent(family, pos, file[pos]).err)
                 /\ UNCHANGED <<pos, ring, collected, count, out, delivered, accepted>>
            [] todo = "skip" ->
                 /\ pos' = pos + 1
                 /\ UNCHANGED <<pc, err, ring, collected, count, out, delivered, accepted>>
            [] OTHER ->
                 /\ delivered' = Append(delivered, pos)
                 /\ IF eventMatchesFilters(event, filters)
                    THEN /\ accepted' = Append(accepted, pos)
                         /\ Callback(event)
                    ELSE /\ pos' = pos + 1
                         /\ UNCHANGED <<pc, err, ring, collected, count, out, accepted>>
    /\ UNCHANGED <<family, opts, io, file, filters, pushed, text, width, res, args, pager>>

\* IterateEvents returned nil: the window or the collected events are written
IterateEnd ==
    /\ pc = "iter"
    /\ pos > Len(file)
    /\ LET mode == formatMode(opts.format) IN
       out' = CASE mode = "text" /\ opts.maxEvents # 0 -> out \o Numbered(slice(ring), TRUE)
                [] mode = "raw" /\ opts.maxEvents # 0 -> out \o Numbered(slice(ring), FALSE)
                [] mode = "chat" /\ opts.maxEvents > 0 -> out \o Numbered(slice(ring), FALSE)
                [] mode = "chat" -> out \o Numbered(collected, FALSE)
                [] OTHER -> out
    /\ Finish("")
    /\ UNCHANGED <<family, opts, io, file, pos, filters, ring, collected, count,
                   delivered, accepted, pushed, text, width, res, args, pager>>

Init ==
    /\ pc = "idle"
    /\ family = "codex"
    /\ opts = NoOpts
    /\ io = {}
    /\ file = <<>>
    /\ pos = 0
    /\ filters = NoFilters
    /\ ring = newEventRing(0)
    /\ collected = <<>>
    /\ count = 0
    /\ out = <<>>
    /\ err = ""
    /\ delivered = <<>>
    /\ accepted = <<>>
    /\ pushed = <<>>
    /\ text = <<>>
    /\ width = 0
    /\ res = <<>>
    /\ args = <<>> /\ pager = NoPager

Next ==
    \/ Invoke
    \/ ResolveSession
    \/ CheckFlags
    \/ RunStart
    \/ ReadMeta
    \/ SelectFormat
    \/ IterateStep
    \/ IterateEnd

Spec == Init /\ [][Next]_vars

(***************************************************************************)
(* eventRing on its own: any capacity, any sequence of pushes, then slice  *)
(***************************************************************************)
RingEvents(k) == {Event(k, Line(TRUE, k, "response_item", "ok", "message", role, "", TsAbsent),
                        k, role, "message") : role \in {"user", "assistant"}}

InitRing ==
    /\ pc = "ring"
    /\ \E capacity \in MaxEventsValues : ring = newEventRing(capacity)
    /\ pushed = <<>>
    /\ res = <<>>
    /\ family = "codex" /\ opts = NoOpts /\ io = {} /\ file = <<>> /\ pos = 0
    /\ filters = NoFilters /\ collected = <<>> /\ count = 0 /\ out = <<>> /\ err = ""
    /\ delivered = <<>> /\ accepted = <<>> /\ text = <<>> /\ width = 0 /\ args = <<>> /\ pager = NoPager

RingPush ==
    /\ pc = "ring"
    /\ Len(pushed) < MaxPush
    /\ \E e \in RingEvents(Len(pushed) + 1) :
         /\ ring' = push(ring, e)
         /\ pushed' = Append(pushed, e)
    /\ UNCHANGED <<pc, family, opts, io, file, pos, filters, collected, count, out, err,
                   delivered, accepted, text, width, res, args, pager>>

RingSlice ==
    /\ pc = "ring"
    /\ res' = slice(ring)
    /\ pc' = "sliced"
    /\ UNCHANGED <<family, opts, io, file, pos, filters, ring, collected, count, out, err,
                   delivered, accepted, pushed, text, width, args, pager>>

NextRing == RingPush \/ RingSlice

SpecRing == InitRing /\ [][NextRing]_vars

(***************************************************************************)
(* Text primitives of the chat renderer.  A text is a sequence of tokens:  *)
(* runes ("a" narrow, " " space, "W" a wide CJK glyph, "z" a zero-width    *)
(* mark) and, for truncateToWidth, whole ANSI escape sequences ("ESC[31m"  *)
(* a colour, "ESC[0m" the reset) as ansiPattern matches them.              *)
(***************************************************************************)
Runes == {"a", " ", "W", "z"}
AnsiSeqs == {"ESC[31m", "ESC[0m"}

\* go-runewidth RuneWidth
RuneWidth(r) ==
    CASE r = "W" -> 2
      [] r = "z" -> 0
      [] OTHER -> 1

RECURSIVE StringWidth(_)
\* go-runewidth StringWidth of a text without escape sequences
StringWidth(s) == IF s = <<>> THEN 0 ELSE RuneWidth(Head(s)) + StringWidth(Tail(s))

IsAnsi(tok) == tok \in AnsiSeqs

StripAnsi(s) == SelectSeq(s, LAMBDA tok : ~IsAnsi(tok))

OnlyAnsi(s) == SelectSeq(s, LAMBDA tok : IsAnsi(tok))

visibleWidth(s) == StringWidth(StripAnsi(s))

RECURSIVE TrimRightSpaces(_)
TrimRightSpaces(s) ==
    IF s # <<>> /\ s[Len(s)] = " " THEN TrimRightSpaces(SubSeq(s, 1, Len(s) - 1)) ELSE s

RECURSIVE wrapLoopCountingRunes(_, _, _, _, _, _)
\* variant: every rune counts as one column
wrapLoopCountingRunes(s, i, w, lines, current, currentWidth) ==
    IF i > Len(s)
    THEN (IF currentWidth > 0 \/ Len(current) > 0 THEN Append(lines, current) ELSE lines)
    ELSE IF currentWidth + 1 > w /\ Len(current) > 0
         THEN wrapLoopCountingRunes(s, i + 1, w, Append(lines, current), <<s[i]>>, 1)
         ELSE wrapLoopCountingRunes(s, i + 1, w, lines, Append(current, s[i]), currentWidth + 1)

RECURSIVE wrapLoop(_, _, _, _, _, _)
\* the rune loop of wrapText
wrapLoop(s, i, w, lines, current, currentWidth) ==
    IF i > Len(s)
    THEN (IF currentWidth > 0 \/ Len(current) > 0 THEN Append(lines, current) ELSE lines)
    ELSE LET rw == RuneWidth(s[i]) IN
         IF currentWidth + rw > w /\ Len(current) > 0
         THEN wrapLoop(s, i + 1, w, Append(lines, current), <<s[i]>>, rw)
         ELSE wrapLoop(s, i + 1, w, lines, Append(current, s[i]), currentWidth + rw)

\* variant: the line still being built when the text ends is not appended
wrapTextWithoutFinalFlush(s, w) ==
    IF w <= 0 THEN <<s>>
    ELSE LET trimmed == TrimRightSpaces(s) IN
         IF trimmed = <<>> THEN << <<>> >>
         ELSE LET all == wrapLoop(trimmed, 1, w, <<>>, <<>>, 0)
              IN  SubSeq(all, 1, Len(all) - 1)

wrapText(s, w) ==
    IF w <= 0 THEN <<s>>
    ELSE LET trimmed == TrimRightSpaces(s) IN
         IF trimmed = <<>> THEN << <<>> >>
         ELSE wrapLoop(trimmed, 1, w, <<>>, <<>>, 0)

RECURSIVE truncateLoop(_, _, _, _, _)
\* the scan loop of truncateToWidth
truncateLoop(s, i, w, colored, current) ==
    IF i > Len(s) THEN colored
    ELSE IF IsAnsi(s[i]) THEN truncateLoop(s, i + 1, w, Append(colored, s[i]), current)
    ELSE IF current + RuneWidth(s[i]) > w THEN colored
    ELSE truncateLoop(s, i + 1, w, Append(colored, s[i]), current + RuneWidth(s[i]))

\* variant: a text exactly as wide as the limit is cut one column short
truncateToWidthOneColumnShort(s, w) ==
    IF visibleWidth(s) < w THEN s ELSE truncateLoop(s, 1, w - 1, <<>>, 0)

truncateToWidth(s, w) ==
    IF visibleWidth(s) <= w THEN s ELSE truncateLoop(s, 1, w, <<>>, 0)

InitText(alphabet) ==
    /\ pc = "text"
    /\ text \in SeqsUpTo(alphabet, MaxText)
    /\ width \in (-1)..MaxWidth
    /\ res = <<>>
    /\ family = "codex" /\ opts = NoOpts /\ io = {} /\ file = <<>> /\ pos = 0
    /\ filters = NoFilters /\ ring = newEventRing(0) /\ collected = <<>> /\ count = 0
    /\ out = <<>> /\ err = "" /\ delivered = <<>> /\ accepted = <<>> /\ pushed = <<>>
    /\ args = <<>> /\ pager = NoPager

WrapText ==
    /\ pc = "text"
    /\ res' = wrapText(text, width)
    /\ pc' = "wrapped"
    /\ UNCHANGED <<family, opts, io, file, pos, filters, ring, collected, count, out, err,
                   delivered, accepted, pushed, text, width, args, pager>>

TruncateToWidth ==
    /\ pc = "text"
    /\ res' = truncateToWidth(text, width)
    /\ pc' = "truncated"
    /\ UNCHANGED <<family, opts, io, file, pos, filters, ring, collected, count, out, err,
                   delivered, accepted, pushed, text, width, args, pager>>

\* UTF-8 length of a rune in bytes, as Go's len counts a string
RuneLen(r) ==
    CASE r = "W" -> 3
      [] r = "z" -> 2
      [] OTHER -> 1

RECURSIVE ByteLen(_)
ByteLen(s) == IF s = <<>> THEN 0 ELSE RuneLen(Head(s)) + ByteLen(Tail(s))

RECURSIVE FieldsLoop(_, _, _, _)
FieldsLoop(s, i, words, current) ==
    IF i > Len(s) THEN (IF current # <<>> THEN Append(words, current) ELSE words)
    ELSE IF s[i] = " "
         THEN FieldsLoop(s, i + 1, IF current # <<>> THEN Append(words, current) ELSE words, <<>>)
         ELSE FieldsLoop(s, i + 1, words, Append(current, s[i]))

\* strings.Fields: the maximal runs of non-space runes, in order
Fields(s) == FieldsLoop(s, 1, <<>>, <<>>)

RECURSIVE wrapBodyLoop(_, _, _, _, _)
\* the word loop of wrapBody
wrapBodyLoop(words, i, w, lines, current) ==
    IF i > Len(words) THEN Append(lines, current)
    ELSE IF ByteLen(current) + 1 + ByteLen(words[i]) > w
         THEN wrapBodyLoop(words, i + 1, w, Append(lines, current), words[i])
         ELSE wrapBodyLoop(words, i + 1, w, lines, current \o <<" ">> \o words[i])

\* wrapBody; the result is given as the lines its "\n"-joined string holds
wrapBody(s, w) ==
    IF w <= 0 \/ ByteLen(s) <= w THEN <<s>>
    ELSE LET words == Fields(s) IN
         IF Len(words) = 0 THEN << <<>> >>
         ELSE wrapBodyLoop(words, 2, w, <<>>, words[1])

WrapBody ==
    /\ pc = "text"
    /\ res' = wrapBody(text, width)
    /\ pc' = "bodyWrapped"
    /\ UNCHANGED <<family, opts, io, file, pos, filters, ring, collected, count, out, err,
                   delivered, accepted, pushed, text, width, args, pager>>

InitWrap == InitText(Runes)

NextWrap == WrapText \/ WrapBody

SpecWrap == InitWrap /\ [][NextWrap]_vars

InitTruncate == InitText({"a", "W", "z"} \cup AnsiSeqs)

SpecTruncate == InitTruncate /\ [][TruncateToWidth]_vars

(***************************************************************************)
(* Chat bubble placement: renderChatTranscript, renderChatBubble,          *)
(* computeLeftPad                                                          *)
(***************************************************************************)
DefaultWidth == 80
BasePadding == 2
BorderWidth == 4
Aligns == {"right", "center", "left"}

Max(a, b) == IF a >= b THEN a ELSE b

transcriptWidth(w) == IF w <= 0 THEN DefaultWidth ELSE w

maxContentWidthNarrowMargin(totalWidth, padding) ==
    totalWidth - 4

maxContentWidth(totalWidth, padding) ==
    LET wide == totalWidth - padding * 2 - 10
        narrow == IF totalWidth > 30 THEN totalWidth - 12 ELSE totalWidth - 8
    IN  IF wide < 20 THEN Max(narrow, 8) ELSE wide

bubbleWidthOf(maxLineWidth, totalWidth, padding) ==
    Min(maxLineWidth, maxContentWidth(totalWidth, padding))

computeLeftPadRightInset(totalWidth, bubbleWidth, padding, align) ==
    LET maxPad == Max(totalWidth - bubbleWidth - BorderWidth, 0)
    IN  CASE align = "right"  -> maxPad - padding
          [] align = "center" -> Min(Max(maxPad \div 2, padding), maxPad)
          [] OTHER            -> IF padding > maxPad THEN maxPad ELSE padding

computeLeftPad(totalWidth, bubbleWidth, padding, align) ==
    LET maxPad == Max(totalWidth - bubbleWidth - BorderWidth, 0)
    IN  CASE align = "right"  -> maxPad
          [] align = "center" ->
               LET half == maxPad \div 2
                   raised == IF half < padding THEN padding ELSE half
               IN  IF raised > maxPad THEN maxPad ELSE raised
          [] OTHER            -> IF padding > maxPad THEN maxPad ELSE padding

InitPad ==
    /\ pc = "pad"
    /\ \E w \in (-1)..MaxTotalWidth, m \in 1..MaxLineWidth, p \in 0..MaxPadding, a \in Aligns :
         args = [totalWidth |-> transcriptWidth(w), maxLineWidth |-> m,
                 padding |-> p, align |-> a]
    /\ res = <<>> /\ pager = NoPager
    /\ family = "codex" /\ opts = NoOpts /\ io = {} /\ file = <<>> /\ pos = 0
    /\ filters = NoFilters /\ ring = newEventRing(0) /\ collected = <<>> /\ count = 0
    /\ out = <<>> /\ err = "" /\ delivered = <<>> /\ accepted = <<>> /\ pushed = <<>>
    /\ text = <<>> /\ width = 0

ComputeLeftPad ==
    /\ pc = "pad"
    /\ LET bubbleWidth == bubbleWidthOf(args.maxLineWidth, args.totalWidth, args.padding)
       IN  res' = [bubbleWidth |-> bubbleWidth,
                   leftPad |-> computeLeftPad(args.totalWidth, bubbleWidth,
                                              args.padding, args.align)]
    /\ pc' = "padded"
    /\ UNCHANGED <<family, opts, io, file, pos, filters, ring, collected, count, out, err,
                   delivered, accepted, pushed, text, width, args, pager>>

SpecPad == InitPad /\ [][ComputeLeftPad]_vars

(***************************************************************************)
(* Content decoding: JSON values, decodeContentBlocks (Family A) and       *)
(* decodeContent (Family B)                                                *)
(*                                                                         *)
(* A JSON value is a record [shape, str, items]: shape "absent" is a       *)
(* missing field (empty RawMessage), "null", "string", "array" (of         *)
(* objects, held in items) or "object" (any other value).  A Go string is  *)
(* a sequence of non-empty fragments, so that concatenation is \o and the  *)
(* empty string is <<>>.                                                   *)
(***************************************************************************)
Str(s) == IF s = "" THEN <<>> ELSE <<s>>

JAbsent == [shape |-> "absent", str |-> "", items |-> <<>>]
JNull == [shape |-> "null", str |-> "", items |-> <<>>]
JObject == [shape |-> "object", str |-> "", items |-> <<>>]
JString(s) == [shape |-> "string", str |-> s, items |-> <<>>]
JArray(items) == [shape |-> "array", str |-> "", items |-> items]

Blk(type, txt) ==
    [type |-> type, text |-> txt, id |-> "", name |-> "", input |-> "",
     toolUseId |-> "", content |-> JAbsent]
ToolUse(name, id, input) ==
    [type |-> "tool_use", text |-> "", id |-> id, name |-> name, input |-> input,
     toolUseId |-> "", content |-> JAbsent]
ToolResult(toolUseId, content) ==
    [type |-> "tool_result", text |-> "", id |-> "", name |-> "", input |-> "",
     toolUseId |-> toolUseId, content |-> content]

Strings == {"", "hi"}
Blocks ==
    {Blk("text", s) : s \in Strings}
      \cup {Blk("input_text", "hi"), Blk("image", "")}
      \cup {ToolUse("Read", "t1", input) : input \in {"", "{}"}}
      \cup {ToolResult("t1", c) :
              c \in {JAbsent, JString("out"),
                     JArray(<<Blk("text", "ok"), Blk("text", ""), Blk("text", "done")>>)}}
ContentValues ==
    {JAbsent, JNull, JObject}
      \cup {JString(s) : s \in Strings}
      \cup {JArray(items) : items \in SeqsUpTo(Blocks, MaxBlocks)}

RECURSIVE RawJSON(_)
RECURSIVE RawItems(_, _)
RawItems(items, i) ==
    IF i > Len(items) THEN <<>>
    ELSE LET b == items[i]
         IN  (IF i > 1 THEN <<",">> ELSE <<>>)
               \o <<"{type:">> \o Str(b.type) \o <<",text:">> \o Str(b.text)
               \o <<",id:">> \o Str(b.id) \o <<",name:">> \o Str(b.name)
               \o <<",input:">> \o Str(b.input)
               \o <<",tool_use_id:">> \o Str(b.toolUseId)
               \o <<",content:">> \o RawJSON(b.content) \o <<"}">>
               \o RawItems(items, i + 1)
RawJSON(v) ==
    CASE v.shape = "absent" -> <<>>
      [] v.shape = "null"   -> <<"null">>
      [] v.shape = "string" -> <<"\"">> \o Str(v.str) \o <<"\"">>
      [] v.shape = "array"  -> <<"[">> \o RawItems(v.items, 1) \o <<"]">>
      [] OTHER              -> <<"{...}">>

ContentBlock(type, txt) == [type |-> type, text |-> txt]

decodeContentBlocksStringAsJSON(raw) ==
    CASE raw.shape = "absent" -> <<>>
      [] raw.shape \in {"array", "null"} ->
           [i \in 1..Len(raw.items) |->
              ContentBlock(raw.items[i].type, Str(raw.items[i].text))]
      [] OTHER -> <<ContentBlock("json", RawJSON(raw))>>

decodeContentBlocks(raw) ==
    CASE raw.shape = "absent" -> <<>>
      [] raw.shape \in {"array", "null"} ->
           [i \in 1..Len(raw.items) |->
              ContentBlock(raw.items[i].type, Str(raw.items[i].text))]
      [] raw.shape = "string" -> <<ContentBlock("text", Str(raw.str))>>
      [] OTHER -> <<ContentBlock("json", RawJSON(raw))>>

RECURSIVE JoinNonEmpty(_, _, _)
JoinNonEmpty(items, i, acc) ==
    IF i > Len(items) THEN acc
    ELSE IF items[i].text = "" THEN JoinNonEmpty(items, i + 1, acc)
    ELSE JoinNonEmpty(items, i + 1,
                      (IF acc = <<>> THEN <<>> ELSE acc \o <<"\n">>) \o Str(items[i].text))

toolResultText(content) ==
    CASE content.shape = "absent" -> <<>>
      [] content.shape \in {"array", "null"} -> JoinNonEmpty(content.items, 1, <<>>)
      [] OTHER -> RawJSON(content)

decodeBlock(block, raw) ==
    CASE block.type = "text" -> ContentBlock("text", Str(block.text))
      [] block.type = "tool_use" ->
           ContentBlock("tool_use",
               <<"Tool: ">> \o Str(block.name) \o <<" (ID: ">> \o Str(block.id) \o <<")">>
                 \o (IF block.input # "" THEN <<"\nInput: ">> \o Str(block.input) ELSE <<>>))
      [] block.type = "tool_result" ->
           LET resultText == toolResultText(block.content)
           IN  ContentBlock("tool_result",
                   <<"Tool Result (ID: ">> \o Str(block.toolUseId) \o <<")">>
                     \o (IF resultText # <<>> THEN <<"\n">> \o resultText ELSE <<>>))
      [] OTHER -> ContentBlock("json", RawJSON(raw))

decodeContent(raw) ==
    CASE raw.shape = "absent" -> <<>>
      [] raw.shape \in {"string", "null"} -> <<ContentBlock("text", Str(raw.str))>>
      [] raw.shape = "array" -> [i \in 1..Len(raw.items) |-> decodeBlock(raw.items[i], raw)]
      [] OTHER -> <<ContentBlock("json", RawJSON(raw))>>

DecodeContentOf(fam, raw) ==
    IF fam = "codex" THEN decodeContentBlocks(raw) ELSE decodeContent(raw)

InitStudy ==
    /\ res = <<>> /\ pager = NoPager
    /\ opts = NoOpts /\ io = {} /\ file = <<>> /\ pos = 0
    /\ filters = NoFilters /\ ring = newEventRing(0) /\ collected = <<>> /\ count = 0
    /\ out = <<>> /\ err = "" /\ delivered = <<>> /\ accepted = <<>> /\ pushed = <<>>
    /\ text = <<>> /\ width = 0

InitContent ==
    /\ pc = "content"
    /\ family \in Families
    /\ \E v \in ContentValues : args = [content |-> v]
    /\ InitStudy

DecodeContent ==
    /\ pc = "content"
    /\ res' = DecodeContentOf(family, args.content)
    /\ pc' = "decoded"
    /\ UNCHANGED <<family, opts, io, file, pos, filters, ring, collected, count, out, err,
                   delivered, accepted, pushed, text, width, args, pager>>

SpecContent == InitContent /\ [][DecodeContent]_vars

(***************************************************************************)
(* Family A records and the content parseEvent gives them                  *)
(*                                                                         *)
(* A record is [kind, payload, f]: payload is the JSON value of the        *)
(* "payload" key and f holds the members the payload structs read when     *)
(* that value is an object.                                                *)
(***************************************************************************)
NoInfo == [present |-> FALSE, input |-> 0, output |-> 0, cached |-> 0, reasoning |-> 0]
Usage(cached, reasoning) ==
    [present |-> TRUE, input |-> 1, output |-> 2, cached |-> cached, reasoning |-> reasoning]

NoFields ==
    [id |-> "", ptype |-> "", name |-> "", arguments |-> "", output |-> "",
     content |-> JAbsent, summary |-> JAbsent, message |-> "", txt |-> "",
     info |-> NoInfo, turnId |-> "", context |-> "", model |-> "", effort |-> "",
     cwd |-> ""]

Rec(kind, payload, f) == [kind |-> kind, payload |-> payload, f |-> f]

KnownKinds == {"session_meta", "response_item", "event_msg", "turn_context"}
UnknownKind == "compacted"
NonObjectPayloads ==
    {JAbsent, JNull, JString("hi"), JArray(<<>>), JArray(<<Blk("text", "hi")>>)}
RecordContents ==
    {JAbsent, JNull, JObject, JString("hi"), JArray(<<>>),
     JArray(<<Blk("input_text", "hi")>>)}
RecordSummaries == {JAbsent, JArray(<<Blk("summary_text", "why")>>)}

SessionMetaFields == {[NoFields EXCEPT !.id = id] : id \in {"", "s1"}}
ResponseItemFields ==
    {[NoFields EXCEPT !.ptype = t, !.name = n, !.arguments = IF n = "" THEN "" ELSE "{}",
                      !.output = o, !.content = c, !.summary = s] :
        t \in {"message", "reasoning", "function_call", "custom_tool_call",
               "function_call_output", "custom_tool_call_output"},
        n \in {"", "shell"}, o \in {"", "ok"}, c \in RecordContents, s \in RecordSummaries}
EventMsgFields ==
    {[NoFields EXCEPT !.ptype = t, !.content = c, !.message = m, !.txt = x, !.info = i] :
        t \in {"user_message", "agent_message", "token_count", "agent_reasoning",
               "turn_aborted", "task_started"},
        c \in {JAbsent, JString("hi"), JArray(<<>>)}, m \in {"", "msg"}, x \in {"", "think"},
        i \in {NoInfo, Usage(0, 0), Usage(5, 0), Usage(0, 7)}}
TurnContextFields ==
    {[NoFields EXCEPT !.turnId = t, !.context = c, !.model = m, !.effort = e, !.cwd = d] :
        t \in {"", "t1"}, c \in {"", "ctx"}, m \in {"", "gpt"}, e \in {"", "high"},
        d \in {"", "/w"}}
FieldsOf(kind) ==
    CASE kind = "session_meta"  -> SessionMetaFields
      [] kind = "response_item" -> ResponseItemFields
      [] kind = "event_msg"     -> EventMsgFields
      [] kind = "turn_context"  -> TurnContextFields
      [] OTHER                  -> {NoFields}
CodexRecords ==
    UNION {{Rec(kind, JObject, f) : f \in FieldsOf(kind)}
             \cup {Rec(kind, p, NoFields) : p \in NonObjectPayloads} :
           kind \in KnownKinds \cup {UnknownKind}}

\* json.Unmarshal of the payload into a struct: an object fills the members,
\* null leaves them zero, any other value (or no value) is an error
structOK(rec) == rec.payload.shape \in {"object", "null"}
structOf(rec) == IF rec.payload.shape = "object" THEN rec.f ELSE NoFields

RECURSIVE JoinParts(_, _)
JoinParts(parts, i) ==
    IF i > Len(parts) THEN <<>>
    ELSE (IF i > 1 THEN <<", ">> ELSE <<>>) \o parts[i] \o JoinParts(parts, i + 1)

tokenCountText(info) ==
    IF info.present
    THEN <<"Tokens: ", ToString(info.input), " in / ", ToString(info.output), " out">>
           \o (IF info.cached > 0 THEN <<" (", ToString(info.cached), " cached)">> ELSE <<>>)
           \o (IF info.reasoning > 0
               THEN <<" [", ToString(info.reasoning), " reasoning]">> ELSE <<>>)
    ELSE <<"Token usage unavailable">>

turnContextText(p) ==
    IF p.turnId # "" /\ p.context # ""
    THEN <<"Turn: ", p.turnId, " - ", p.context>>
    ELSE LET parts ==
                 (IF p.model # "" THEN << <<"Model: ", p.model>> >> ELSE <<>>)
                   \o (IF p.effort # "" THEN << <<"Effort: ", p.effort>> >> ELSE <<>>)
                   \o (IF p.cwd # "" THEN << <<"CWD: ", p.cwd>> >> ELSE <<>>)
         IN  IF Len(parts) > 0 THEN JoinParts(parts, 1) ELSE <<"Turn context">>

responseItemContent(p) ==
    IF p.ptype \in {"function_call", "custom_tool_call"}
    THEN IF p.name # ""
         THEN <<ContentBlock("function_name", Str(p.name)),
                ContentBlock("function_arguments", Str(p.arguments))>>
         ELSE decodeContentBlocks(p.content)
    ELSE IF p.ptype \in {"function_call_output", "custom_tool_call_output"}
    THEN IF p.output # ""
         THEN <<ContentBlock("function_output", Str(p.output))>>
         ELSE decodeContentBlocks(p.content)
    ELSE LET blocks == decodeContentBlocks(p.content)
         IN  IF Len(blocks) = 0 /\ p.summary.shape # "absent"
             THEN decodeContentBlocks(p.summary)
             ELSE blocks

eventMsgContent(rec, p) ==
    CASE p.ptype \in {"user_message", "agent_message"} ->
           LET txt == IF p.content.str = "" THEN p.message ELSE p.content.str
           IN  IF txt # "" THEN <<ContentBlock("text", Str(txt))>> ELSE <<>>
      [] p.ptype = "token_count" -> <<ContentBlock("text", tokenCountText(p.info))>>
      [] p.ptype = "agent_reasoning" ->
           IF p.txt # "" THEN <<ContentBlock("text", Str(p.txt))>> ELSE <<>>
      [] p.ptype = "turn_aborted" -> <<ContentBlock("text", <<"Turn aborted">>)>>
      [] OTHER -> decodeContentBlocks(rec.payload)

codexContent(rec) ==
    LET p == structOf(rec)
        Failed == [err |-> TRUE, content |-> <<>>]
        Content(blocks) == [err |-> FALSE, content |-> blocks]
    IN  CASE rec.kind = "session_meta" ->
               IF structOK(rec) THEN Content(<<ContentBlock("id", Str(p.id))>>) ELSE Failed
          [] rec.kind = "response_item" ->
               IF structOK(rec) THEN Content(responseItemContent(p)) ELSE Failed
          [] rec.kind = "event_msg" ->
               IF structOK(rec) /\ p.content.shape \in {"absent", "null", "string"}
               THEN Content(eventMsgContent(rec, p)) ELSE Failed
          [] rec.kind = "turn_context" ->
               IF structOK(rec) THEN Content(<<ContentBlock("text", turnContextText(p))>>)
               ELSE Failed
          [] OTHER -> Content(decodeContentBlocks(rec.payload))

InitRecord ==
    /\ pc = "record"
    /\ family = "codex"
    /\ args \in CodexRecords
    /\ InitStudy

ParseRecord ==
    /\ pc = "record"
    /\ res' = codexContent(args)
    /\ pc' = "parsed"
    /\ UNCHANGED <<family, opts, io, file, pos, filters, ring, collected, count, out, err,
                   delivered, accepted, pushed, text, width, args, pager>>

SpecRecord == InitRecord /\ [][ParseRecord]_vars

(***************************************************************************)
(* Session summary: FirstUserSummary, the event count and last timestamp   *)
(* gathered by the info and list commands, durationSeconds.                *)
(*                                                                         *)
(* A line of this study carries, besides the fields of Line, the JSON      *)
(* value of the message "content" and the top-level "summary" string.  An  *)
(* instant counts ticks of half a second.  Every block text of the study   *)
(* is shorter than the 160 bytes at which buildSummaryText stops.          *)
(***************************************************************************)
TicksPerSecond == 2

InfoLine(l, content, summary) ==
    [json |-> l.json, ts |-> l.ts, type |-> l.type, payload |-> l.payload,
     ptype |-> l.ptype, role |-> l.role, id |-> l.id, pts |-> l.pts,
     content |-> content, summary |-> summary]

CodexInfoLines ==
    { InfoLine(Line(TRUE, 1, "session_meta", "ok", "codex_cli", "", "", 1), JAbsent, ""),
      InfoLine(Line(TRUE, TsAbsent, "session_meta", "ok", "codex_cli", "", "", TsAbsent),
               JAbsent, ""),
      InfoLine(Line(TRUE, TsAbsent, "", "none", "", "", "s0", TsAbsent), JAbsent, ""),
      InfoLine(Line(TRUE, 2, "", "none", "", "", "s0", TsAbsent), JAbsent, ""),
      InfoLine(Line(TRUE, 2, "response_item", "ok", "message", "user", "", TsAbsent),
               JArray(<<Blk("input_text", " hi")>>), ""),
      InfoLine(Line(TRUE, 5, "response_item", "ok", "message", "assistant", "", TsAbsent),
               JString("bye"), ""),
      InfoLine(Line(TRUE, 3, "event_msg", "ok", "token_count", "", "", TsAbsent), JAbsent, ""),
      InfoLine(Line(FALSE, TsAbsent, "", "none", "", "", "", TsAbsent), JAbsent, "") }

ClaudeInfoLines ==
    { InfoLine(Line(TRUE, 1, "user", "ok", "", "user", "", TsAbsent), JString(" hi"), ""),
      InfoLine(Line(TRUE, 3, "user", "ok", "", "user", "", TsAbsent),
               JArray(<<ToolResult("t1", JString("out"))>>), ""),
      InfoLine(Line(TRUE, TsAbsent, "user", "ok", "", "user", "", TsAbsent), JString(""), ""),
      InfoLine(Line(TRUE, 2, "assistant", "ok", "", "assistant", "", TsAbsent),
               JArray(<<Blk("text", "ok"), ToolUse("Read", "t1", "{}")>>), ""),
      InfoLine(Line(TRUE, 5, "assistant", "ok", "", "assistant", "", TsAbsent),
               JString("bye"), ""),
      InfoLine(Line(TRUE, TsAbsent, "summary", "none", "", "", "", TsAbsent), JAbsent, "S"),
      InfoLine(Line(TRUE, 4, "system", "none", "", "", "", TsAbsent), JAbsent, ""),
      InfoLine(Line(FALSE, TsAbsent, "", "none", "", "", "", TsAbsent), JAbsent, ""),
      InfoLine(Line(TRUE, 2, "assistant", "bad", "", "", "", TsAbsent), JAbsent, "") }

InfoLinesOf(fam) == IF fam = "codex" THEN CodexInfoLines ELSE ClaudeInfoLines

\* Event.Content and ClaudeEvent.SummaryText of a line that decodes
eventContent(fam, l) ==
    IF fam = "codex"
    THEN IF l.type = "response_item"
         THEN responseItemContent([NoFields EXCEPT !.ptype = l.ptype, !.content = l.content])
         ELSE <<>>
    ELSE IF l.type \in {"user", "assistant"} /\ l.payload = "ok"
         THEN decodeContent(l.content)
         ELSE <<>>

eventSummaryText(l) == IF l.type = "summary" THEN Str(l.summary) ELSE <<>>

trimText(t) ==
    SelectSeq([i \in 1..Len(t) |-> IF i = 1 \/ i = Len(t) THEN TrimSpace(t[i]) ELSE t[i]],
              LAMBDA x : x # "")

RECURSIVE buildSummaryLoop(_, _, _)
buildSummaryLoop(blocks, i, builder) ==
    IF i > Len(blocks) THEN builder
    ELSE IF blocks[i].text = <<>> THEN buildSummaryLoop(blocks, i + 1, builder)
    ELSE buildSummaryLoop(blocks, i + 1,
             (IF builder # <<>> THEN builder \o <<" ">> ELSE <<>>) \o trimText(blocks[i].text))

buildSummaryText(blocks) == buildSummaryLoop(blocks, 1, <<>>)

NoSummary == [err |-> "", summary |-> <<>>, messageCount |-> 0, lastTimestamp |-> 0]

laterOf(ts, lastTimestamp) == IF ts # 0 /\ ts > lastTimestamp THEN ts ELSE lastTimestamp

\* Family A: counts response_item records, stops at a line that fails to decode
RECURSIVE codexFirstUserSummary(_, _, _)
codexFirstUserSummary(f, i, acc) ==
    IF i > Len(f) THEN acc
    ELSE LET parsed == codexParseEvent(i, f[i])
             e == parsed.event
         IN  IF parsed.err # ""
             THEN [acc EXCEPT !.err = parsed.err, !.summary = <<>>]
             ELSE codexFirstUserSummary(f, i + 1,
                    [acc EXCEPT
                       !.lastTimestamp = laterOf(e.ts, @),
                       !.messageCount = IF e.kind = "response_item" THEN @ + 1 ELSE @,
                       !.summary = IF e.kind = "response_item" /\ @ = <<>> /\ e.role = "user"
                                   THEN buildSummaryText(eventContent("codex", f[i]))
                                   ELSE @])

\* Family B: the summary after one entry of kind `kind`
claudeSummaryOf(kind, content, summaryText, summary) ==
    LET afterUser == IF kind = "user" /\ summary = <<>> THEN buildSummaryText(content)
                     ELSE summary
    IN  IF afterUser = <<>> /\ kind = "summary" /\ summaryText # <<>>
        THEN summaryText
        ELSE afterUser

UserTextAt(f, i) ==
    /\ claudeParseEvent(i, f[i]).err = ""
    /\ f[i].type = "user"
    /\ buildSummaryText(eventContent("claude", f[i])) # <<>>

\* Family B: counts user and assistant entries, passes over lines that fail to
\* decode
RECURSIVE claudeFirstUserSummary(_, _, _)
claudeFirstUserSummary(f, i, acc) ==
    IF i > Len(f) THEN acc
    ELSE LET parsed == claudeParseEvent(i, f[i])
             e == parsed.event
         IN  IF parsed.err # "" THEN claudeFirstUserSummary(f, i + 1, acc)
             ELSE claudeFirstUserSummary(f, i + 1,
                    [acc EXCEPT
                       !.lastTimestamp = laterOf(e.ts, @),
                       !.messageCount = IF e.kind \in {"user", "assistant"} THEN @ + 1 ELSE @,
                       !.summary = claudeSummaryOf(e.kind, eventContent("claude", f[i]),
                                                   eventSummaryText(f[i]), @)])

FirstUserSummary(fam, f) ==
    IF fam = "codex" THEN codexFirstUserSummary(f, 1, NoSummary)
    ELSE claudeFirstUserSummary(f, 1, NoSummary)

\* the callback of the info and list commands over IterateEvents: every decoded
\* event is counted
RECURSIVE countEvents(_, _, _, _)
countEvents(fam, f, i, acc) ==
    IF i > Len(f) THEN acc
    ELSE LET step == IterateLine(fam, i, f[i])
             e == parseEvent(fam, i, f[i]).event
         IN  CASE step = "abort" -> [acc EXCEPT !.err = parseEvent(fam, i, f[i]).err]
               [] step = "skip" -> countEvents(fam, f, i + 1, acc)
               [] OTHER -> countEvents(fam, f, i + 1,
                              [acc EXCEPT !.count = @ + 1,
                                          !.lastTimestamp = laterOf(e.ts, @)])

durationSeconds(start, end) ==
    IF start = 0 \/ end = 0 THEN 0
    ELSE IF end < start THEN 0
    ELSE (end - start) \div TicksPerSecond

NoReport ==
    [err |-> "", meta |-> NoMeta, summary |-> <<>>, messageCount |-> 0,
     lastTimestamp |-> 0, duration |-> 0]

InitInfo ==
    /\ pc = "info"
    /\ family \in Families
    /\ file \in SeqsUpTo(InfoLinesOf(family), MaxLines)
    /\ res = <<>> /\ args = <<>> /\ pager = NoPager
    /\ opts = NoOpts /\ io = {} /\ pos = 0
    /\ filters = NoFilters /\ ring = newEventRing(0) /\ collected = <<>> /\ count = 0
    /\ out = <<>> /\ err = "" /\ delivered = <<>> /\ accepted = <<>> /\ pushed = <<>>
    /\ text = <<>> /\ width = 0

Info ==
    /\ pc = "info"
    /\ LET meta == ReadSessionMeta(family, file)
           summary == FirstUserSummary(family, file)
           counted == countEvents(family, file, 1, [err |-> "", count |-> 0, lastTimestamp |-> 0])
           last == IF counted.lastTimestamp = 0 \/ counted.lastTimestamp < meta.startedAt
                   THEN meta.startedAt ELSE counted.lastTimestamp
       IN  res' = IF ~meta.ok THEN [NoReport EXCEPT !.err = meta.err]
                  ELSE IF summary.err # "" THEN [NoReport EXCEPT !.err = summary.err, !.meta = meta]
                  ELSE IF counted.err # "" THEN [NoReport EXCEPT !.err = counted.err, !.meta = meta]
                  ELSE [err |-> "", meta |-> meta, summary |-> summary.summary,
                        messageCount |-> counted.count,
                        lastTimestamp |-> counted.lastTimestamp,
                        duration |-> durationSeconds(meta.startedAt, last)]
    /\ pc' = "reported"
    /\ UNCHANGED <<family, opts, io, file, pos, filters, ring, collected, count, out, err,
                   delivered, accepted, pushed, text, width, args, pager>>

SpecInfo == InitInfo /\ [][Info]_vars

(***************************************************************************)
(* Session resolution: resolveSessionPath and store.FindSessionPath        *)
(*                                                                         *)
(* A session id and the command argument are sequences of characters.  The *)
(* sessions directory is the sequence of files WalkDir visits, each        *)
(* [jsonl, metaOk, id]: whether the name ends in .jsonl, whether           *)
(* ReadSessionMeta succeeds on it and the id it returns.  statArg and      *)
(* statRel are what os.Stat finds at the argument and at root/argument.    *)
(* The sessions directory itself is never the empty string.                *)
(***************************************************************************)
IdChars == {"a", "b"}
SessionIds == SeqsUpTo(IdChars, MaxIdLen) \ {<<>>}
StatResults == {"file", "dir", "missing"}
SessionFile(jsonl, metaOk, id) == [jsonl |-> jsonl, metaOk |-> metaOk, id |-> id]
SessionFiles ==
    {SessionFile(FALSE, FALSE, <<>>), SessionFile(TRUE, FALSE, <<>>)}
      \cup {SessionFile(TRUE, TRUE, id) : id \in SessionIds}

ErrEmptyIdentifier == "session identifier is empty"
ErrIdNotFound == "session id not found"
\* a resolved path: the argument itself, root/argument, or the n-th file of
\* the sessions directory
PathOf(via, n) == [via |-> via, file |-> n]
Resolved(path) == [err |-> "", path |-> path]
Unresolved(e) == [err |-> e, path |-> PathOf("", 0)]

FindSessionPath(dir, id) ==
    LET hits == {i \in 1..Len(dir) : dir[i].jsonl /\ dir[i].metaOk /\ dir[i].id = id}
    IN  IF hits = {} THEN Unresolved(ErrIdNotFound)
        ELSE Resolved(PathOf("id", CHOOSE i \in hits : \A k \in hits : i <= k))

resolveSessionPath(arg, statArg, statRel, dir) ==
    IF arg = <<>> THEN Unresolved(ErrEmptyIdentifier)
    ELSE IF statArg = "file" THEN Resolved(PathOf("arg", 0))
    ELSE IF statRel = "file" THEN Resolved(PathOf("relative", 0))
    ELSE FindSessionPath(dir, arg)

InitResolve ==
    /\ pc = "resolving"
    /\ family \in Families
    /\ \E arg \in SeqsUpTo(IdChars, MaxIdLen), statArg \in StatResults,
          statRel \in StatResults, dir \in SeqsUpTo(SessionFiles, MaxSessions) :
         args = [arg |-> arg, statArg |-> statArg, statRel |-> statRel, dir |-> dir]
    /\ InitStudy

ResolveSessionPath ==
    /\ pc = "resolving"
    /\ res' = resolveSessionPath(args.arg, args.statArg, args.statRel, args.dir)
    /\ pc' = "resolved"
    /\ UNCHANGED <<family, opts, io, file, pos, filters, ring, collected, count, out, err,
                   delivered, accepted, pushed, text, width, args, pager>>

SpecResolve == InitResolve /\ [][ResolveSessionPath]_vars

(***************************************************************************)
(* Bubble alignment: roleLabel, extractRawRole, alignmentForRole, applied  *)
(* to the event the parser builds from one line.                           *)
(***************************************************************************)
AlignKinds ==
    {"", "session_meta", "response_item", "event_msg", "turn_context", "user", "tool",
     "compacted"}
AlignRoles == {"", "user", "assistant", "tool", "system", "developer"}
AlignPayloadTypes == {"", "message", "user", "tool"}

AlignLines ==
    { Line(TRUE, 1, k, "ok", pt, r, "", TsAbsent) :
        k \in AlignKinds, pt \in AlignPayloadTypes, r \in AlignRoles }

\* roleLabel: the decorated title of the bubble header
roleLabel(event) ==
    IF event.role # ""
    THEN (IF event.ptype # "" THEN <<event.role, ": ", event.ptype>> ELSE <<event.role>>)
    ELSE IF event.kind # ""
    THEN (IF event.kind \in {"event_msg", "turn_context", "response_item"} /\ event.ptype # ""
          THEN <<event.kind, ": ", event.ptype>>
          ELSE <<event.kind>>)
    ELSE IF event.ptype # "" THEN <<event.ptype>>
    ELSE <<"event">>

\* variant: the alignment is taken from the decorated title
extractRawRoleFromLabel(event) == roleLabel(event)

extractRawRole(event) ==
    IF event.role # "" THEN <<event.role>>
    ELSE IF event.kind # "" THEN <<event.kind>>
    ELSE IF event.ptype # "" THEN <<event.ptype>>
    ELSE <<"event">>

alignmentForRole(role) ==
    IF role \in {<<"session_meta">>, <<"event_msg">>, <<"turn_context">>} THEN "left"
    ELSE CASE role = <<"assistant">> -> "left"
           [] role \in {<<"tool">>, <<"system">>} -> "center"
           [] role = <<"user">> -> "right"
           [] OTHER -> "left"

InitAlign ==
    /\ pc = "align"
    /\ family \in Families
    /\ \E l \in AlignLines : args = [line |-> l]
    /\ InitStudy

\* renderChatBubble up to the choice of the alignment
AlignmentForRole ==
    /\ pc = "align"
    /\ LET parsed == parseEvent(family, 1, args.line) IN
         /\ parsed.err = ""
         /\ res' = [event |-> parsed.event,
                    label |-> roleLabel(parsed.event),
                    rawRole |-> extractRawRole(parsed.event),
                    align |-> alignmentForRole(extractRawRole(parsed.event))]
    /\ pc' = "aligned"
    /\ UNCHANGED <<family, opts, io, file, pos, filters, ring, collected, count, out, err,
                   delivered, accepted, pushed, text, width, args, pager>>

SpecAlign == InitAlign /\ [][AlignmentForRole]_vars

(***************************************************************************)
(* buildViewFilters applied to the -E, -T, -M and -R arguments alone       *)
(***************************************************************************)
EntryArgs == {<<>>, <<" ">>, <<"all">>, <<"ALL">>, <<"event_msg">>}
ResponseTypeArgs == {<<>>, <<" ">>, <<"all">>, <<"ALL">>, <<"reasoning">>}
EventMsgTypeArgs == {<<>>, <<" ">>, <<"all">>, <<"ALL">>, <<"token_count">>}
PayloadRoleArgs == {<<>>, <<" ">>, <<"all">>, <<"ALL">>, <<"User", "tool">>}

InitFilters ==
    /\ pc = "filters"
    /\ family = "codex"
    /\ \E e \in EntryArgs, r \in ResponseTypeArgs, m \in EventMsgTypeArgs, p \in PayloadRoleArgs :
         args = [entryArg |-> e, responseTypeArg |-> r, eventMsgTypeArg |-> m,
                 payloadRoleArg |-> p]
    /\ InitStudy

BuildViewFilters ==
    /\ pc = "filters"
    /\ res' = buildViewFilters(FALSE, args.entryArg, args.responseTypeArg,
                               args.eventMsgTypeArg, args.payloadRoleArg)
    /\ pc' = "built"
    /\ UNCHANGED <<family, opts, io, file, pos, filters, ring, collected, count, out, err,
                   delivered, accepted, pushed, text, width, args, pager>>

SpecFilters == InitFilters /\ [][BuildViewFilters]_vars

(***************************************************************************)
(* Session listing: store.ListSessions over the files of one directory     *)
(* walk.  A directory entry has a path, a name that ends in .jsonl or not, *)
(* and the lines of the file.  The options of the study leave CWD and      *)
(* MaxSummary unset; a nil After or Before is 0.                           *)
(***************************************************************************)
CodexListedFiles ==
    LET meta == InfoLine(Line(TRUE, 1, "session_meta", "ok", "codex_cli", "", "", 1), JAbsent, "")
        legacy == InfoLine(Line(TRUE, 2, "", "none", "", "", "s0", TsAbsent), JAbsent, "")
        user == InfoLine(Line(TRUE, 2, "response_item", "ok", "message", "user", "", TsAbsent),
                         JArray(<<Blk("input_text", " hi")>>), "")
        assistant == InfoLine(Line(TRUE, 5, "response_item", "ok", "message", "assistant", "",
                                   TsAbsent), JString("bye"), "")
        bad == InfoLine(Line(FALSE, TsAbsent, "", "none", "", "", "", TsAbsent), JAbsent, "")
    IN  { <<meta, user>>, <<legacy, assistant>>, <<bad>>, <<user>>, <<meta, bad>> }

ClaudeListedFiles ==
    LET user == InfoLine(Line(TRUE, 1, "user", "ok", "", "user", "", TsAbsent), JString(" hi"), "")
        assistant == InfoLine(Line(TRUE, 2, "assistant", "ok", "", "assistant", "", TsAbsent),
                              JArray(<<Blk("text", "ok"), ToolUse("Read", "t1", "{}")>>), "")
        summary == InfoLine(Line(TRUE, TsAbsent, "summary", "none", "", "", "", TsAbsent),
                            JAbsent, "S")
        bad == InfoLine(Line(FALSE, TsAbsent, "", "none", "", "", "", TsAbsent), JAbsent, "")
    IN  { <<user, assistant>>, <<summary, assistant>>, <<bad>>, <<summary>>, <<user, bad>> }

ListedFilesOf(fam) == IF fam = "codex" THEN CodexListedFiles ELSE ClaudeListedFiles

DirEntries(fam) ==
    {[jsonl |-> TRUE, content |-> f] : f \in ListedFilesOf(fam)}
        \cup {[jsonl |-> FALSE, content |-> <<>>]}

\* the entries in the order filepath.WalkDir visits them
Directory(d) ==
    [i \in 1..Len(d) |-> [path |-> i, jsonl |-> d[i].jsonl, content |-> d[i].content]]

ListOptions == [limit : 0..MaxSessions, after : {0, 2}, before : {0, 1}]

NoListResult == [err |-> "", summaries |-> <<>>, warnings |-> <<>>]

Warning(what, path, e) == [what |-> what, path |-> path, err |-> e]

\* variant: a file whose metadata cannot be read ends the walk with its error
walkFuncFailingOnMeta(fam, entry, o, result) ==
    IF ~entry.jsonl THEN result
    ELSE LET meta == ReadSessionMeta(fam, entry.content) IN
         IF ~meta.ok THEN [result EXCEPT !.err = meta.err]
         ELSE result

\* the callback ListSessions passes to filepath.WalkDir
walkFunc(fam, entry, o, result) ==
    IF ~entry.jsonl THEN result
    ELSE LET meta == ReadSessionMeta(fam, entry.content)
             summary == FirstUserSummary(fam, entry.content)
             counted == countEvents(fam, entry.content, 1,
                                    [err |-> "", count |-> 0, lastTimestamp |-> 0])
             last == IF counted.lastTimestamp = 0 \/ counted.lastTimestamp < meta.startedAt
                     THEN meta.startedAt ELSE counted.lastTimestamp
         IN
         IF ~meta.ok
         THEN [result EXCEPT !.warnings = Append(@, Warning("parse meta", entry.path, meta.err))]
         ELSE IF o.after # 0 /\ meta.startedAt < o.after THEN result
         ELSE IF o.before # 0 /\ meta.startedAt > o.before THEN result
         ELSE IF summary.err # ""
         THEN [result EXCEPT
                 !.warnings = Append(@, Warning("extract summary", entry.path, summary.err))]
         ELSE IF counted.err # ""
         THEN [result EXCEPT
                 !.warnings = Append(@, Warning("count messages", entry.path, counted.err))]
         ELSE [result EXCEPT
                 !.summaries = Append(@, [path |-> entry.path, startedAt |-> meta.startedAt,
                                          summary |-> summary.summary,
                                          messageCount |-> counted.count,
                                          durationSeconds |->
                                              durationSeconds(meta.startedAt, last)])]

RECURSIVE WalkDir(_, _, _, _, _)
\* filepath.WalkDir: the walk ends at the first error the callback returns
WalkDir(fam, dir, i, o, result) ==
    IF i > Len(dir) \/ result.err # "" THEN result
    ELSE WalkDir(fam, dir, i + 1, o, walkFunc(fam, dir[i], o, result))

RECURSIVE insertByStartedAt(_, _)
insertByStartedAt(sorted, s) ==
    IF sorted = <<>> THEN <<s>>
    ELSE IF s.startedAt > sorted[Len(sorted)].startedAt
         THEN Append(insertByStartedAt(SubSeq(sorted, 1, Len(sorted) - 1), s),
                     sorted[Len(sorted)])
         ELSE Append(sorted, s)

RECURSIVE sortByStartedAt(_)
\* sort.Slice with StartedAt descending; on the short slices of the study it
\* is an insertion sort
sortByStartedAt(s) ==
    IF s = <<>> THEN <<>>
    ELSE insertByStartedAt(sortByStartedAt(SubSeq(s, 1, Len(s) - 1)), s[Len(s)])

ListSessions(fam, dir, o) ==
    LET walked == WalkDir(fam, dir, 1, o, NoListResult) IN
    IF walked.err # "" THEN walked
    ELSE LET sorted == sortByStartedAt(walked.summaries) IN
         [walked EXCEPT !.summaries = IF o.limit > 0 /\ Len(sorted) > o.limit
                                      THEN SubSeq(sorted, 1, o.limit) ELSE sorted]

InitList ==
    /\ pc = "list"
    /\ family \in Families
    /\ \E d \in SeqsUpTo(DirEntries(family), MaxSessions), o \in ListOptions :
         args = [dir |-> Directory(d), opts |-> o]
    /\ InitStudy

List ==
    /\ pc = "list"
    /\ res' = ListSessions(family, args.dir, args.opts)
    /\ pc' = "listed"
    /\ UNCHANGED <<family, opts, io, file, pos, filters, ring, collected, count, out, err,
                   delivered, accepted, pushed, text, width, args, pager>>

SpecList == InitList /\ [][List]_vars

(***************************************************************************)
(* pipeThroughPager: the caller, the writer goroutine and the pager        *)
(* process around the stdin pipe.  The text is size bytes long, the pipe   *)
(* buffers capacity bytes, and the pager reads at most quota bytes before  *)
(* it exits; it also exits at end of input.                                *)
(***************************************************************************)
PagerArgs ==
    [size : 1..MaxOutput, capacity : 1..MaxPipe, quota : 0..(MaxOutput + 1), startOk : BOOLEAN]

ErrRunPager == "run pager"

InitPager ==
    /\ pc = "pager"
    /\ args \in PagerArgs
    /\ pager = [toWrite |-> args.size, buf |-> 0, read |-> 0, writer |-> "none",
                proc |-> "none", readOpen |-> TRUE, writeOpen |-> TRUE]
    /\ res = <<>>
    /\ family = "codex" /\ opts = NoOpts /\ io = {} /\ file = <<>> /\ pos = 0
    /\ filters = NoFilters /\ ring = newEventRing(0) /\ collected = <<>> /\ count = 0
    /\ out = <<>> /\ err = "" /\ delivered = <<>> /\ accepted = <<>> /\ pushed = <<>>
    /\ text = <<>> /\ width = 0

\* go func() { defer stdin.Close(); io.WriteString(stdin, text) }()
SpawnWriter ==
    /\ pc = "pager"
    /\ pager' = [pager EXCEPT !.writer = "writing"]
    /\ pc' = "run"
    /\ UNCHANGED <<family, opts, io, file, pos, filters, ring, collected, count, out, err,
                   delivered, accepted, pushed, text, width, res, args>>

\* variant: the text is written by the caller before the pager is started
StartAfterWriting ==
    /\ pc = "run" /\ args.startOk /\ pager.writer = "done"
    /\ pager' = [pager EXCEPT !.proc = "running"]
    /\ pc' = "waiting"
    /\ UNCHANGED <<family, opts, io, file, pos, filters, ring, collected, count, out, err,
                   delivered, accepted, pushed, text, width, res, args>>

\* cmd.Run: the pager process starts
Start ==
    /\ pc = "run" /\ args.startOk
    /\ pager' = [pager EXCEPT !.proc = "running"]
    /\ pc' = "waiting"
    /\ UNCHANGED <<family, opts, io, file, pos, filters, ring, collected, count, out, err,
                   delivered, accepted, pushed, text, width, res, args>>

\* cmd.Run: the pager cannot be started; both ends of the pipe are closed
StartFails ==
    /\ pc = "run" /\ ~args.startOk
    /\ pager' = [pager EXCEPT !.readOpen = FALSE, !.writeOpen = FALSE, !.buf = 0]
    /\ res' = [err |-> ErrRunPager]
    /\ pc' = "returned"
    /\ UNCHANGED <<family, opts, io, file, pos, filters, ring, collected, count, out, err,
                   delivered, accepted, pushed, text, width, args>>

\* io.WriteString: some bytes fit into the pipe
WriterWrite ==
    /\ pager.writer = "writing" /\ pager.toWrite > 0
    /\ pager.writeOpen /\ pager.readOpen /\ pager.buf < args.capacity
    /\ \E n \in 1..Min(pager.toWrite, args.capacity - pager.buf) :
         pager' = [pager EXCEPT !.toWrite = @ - n, !.buf = @ + n]
    /\ UNCHANGED <<pc, family, opts, io, file, pos, filters, ring, collected, count, out, err,
                   delivered, accepted, pushed, text, width, res, args>>

\* io.WriteString fails on a pipe without reader or on a closed file; the
\* deferred stdin.Close runs
WriterFails ==
    /\ pager.writer = "writing" /\ pager.toWrite > 0
    /\ ~pager.writeOpen \/ ~pager.readOpen
    /\ pager' = [pager EXCEPT !.writer = "done", !.writeOpen = FALSE]
    /\ UNCHANGED <<pc, family, opts, io, file, pos, filters, ring, collected, count, out, err,
                   delivered, accepted, pushed, text, width, res, args>>

\* the whole text is written; the deferred stdin.Close runs
WriterClose ==
    /\ pager.writer = "writing" /\ pager.toWrite = 0
    /\ pager' = [pager EXCEPT !.writer = "done", !.writeOpen = FALSE]
    /\ UNCHANGED <<pc, family, opts, io, file, pos, filters, ring, collected, count, out, err,
                   delivered, accepted, pushed, text, width, res, args>>

\* the pager reads one byte of its standard input
PagerRead ==
    /\ pager.proc = "running" /\ pager.buf > 0 /\ pager.read < args.quota
    /\ pager' = [pager EXCEPT !.buf = @ - 1, !.read = @ + 1]
    /\ UNCHANGED <<pc, family, opts, io, file, pos, filters, ring, collected, count, out, err,
                   delivered, accepted, pushed, text, width, res, args>>

\* the pager exits: it has read what it wanted, or it is at end of input
PagerExit ==
    /\ pager.proc = "running"
    /\ pager.read = args.quota \/ (pager.buf = 0 /\ ~pager.writeOpen)
    /\ pager' = [pager EXCEPT !.proc = "exited", !.readOpen = FALSE, !.buf = 0]
    /\ UNCHANGED <<pc, family, opts, io, file, pos, filters, ring, collected, count, out, err,
                   delivered, accepted, pushed, text, width, res, args>>

\* cmd.Run: Wait returns once the pager has exited and closes the write end
WaitReturns ==
    /\ pc = "waiting" /\ pager.proc = "exited"
    /\ pager' = [pager EXCEPT !.writeOpen = FALSE]
    /\ \E status \in {"", ErrRunPager} : res' = [err |-> status]
    /\ pc' = "returned"
    /\ UNCHANGED <<family, opts, io, file, pos, filters, ring, collected, count, out, err,
                   delivered, accepted, pushed, text, width, args>>

NextPager ==
    \/ SpawnWriter \/ Start \/ StartFails
    \/ WriterWrite \/ WriterFails \/ WriterClose
    \/ PagerRead \/ PagerExit
    \/ WaitReturns

SpecPager == InitPager /\ [][NextPager]_vars

\* the Go scheduler runs the goroutines, the kernel runs the pager process
PagerFairness ==
    /\ WF_vars(SpawnWriter) /\ WF_vars(Start) /\ WF_vars(StartFails)
    /\ WF_vars(WriterWrite) /\ WF_vars(WriterFails) /\ WF_vars(WriterClose)
    /\ WF_vars(PagerRead) /\ WF_vars(PagerExit)
    /\ WF_vars(WaitReturns)

SpecPagerLive == SpecPager /\ PagerFairness

(***************************************************************************)
(* renderChatBubble: the lines of one bubble.  The event has a role, a     *)
(* zero or non-zero timestamp and one text block; a rendered line is a     *)
(* text of the study of the text primitives (every token besides "W", "z"  *)
(* and the escape sequences is one column wide, the middle dot "MIDDOT"    *)
(* and the box-drawing runes "TOPLEFT", "HLINE", ... included).            *)
(***************************************************************************)
BubbleRoles == {"user", "assistant", "tool"}

RECURSIVE TrimLeftSpaces(_)
TrimLeftSpaces(s) == IF s # <<>> /\ Head(s) = " " THEN TrimLeftSpaces(Tail(s)) ELSE s

\* format.RenderEventLines(event, 0) for one text block: nil for an empty
\* body, otherwise the trimmed text
RenderEventLines(blockText) ==
    LET body == TrimLeftSpaces(TrimRightSpaces(blockText)) IN
    IF body = <<>> THEN <<>> ELSE <<body>>

\* titleCase(strings.ToLower(roleLabel(event))) of an event without payload type
titleCase(role) ==
    CASE role = "user" -> <<"U", "s", "e", "r">>
      [] role = "assistant" -> <<"A", "s", "s", "i", "s", "t", "a", "n", "t">>
      [] role = "tool" -> <<"T", "o", "o", "l">>
      [] OTHER -> <<"E", "v", "e", "n", "t">>

\* ts.Format("Jan 02 15:04"), "-" for the zero time
headerTime(ts) ==
    IF ts = 0 THEN <<"-">>
    ELSE <<"J", "a", "n", " ", "0", "2", " ", "1", "5", ":", "0", "4">>

chatHeader(role, ts) == titleCase(role) \o <<" ", "MIDDOT", " ">> \o headerTime(ts)

colorize(enabled, s) == IF enabled THEN <<"ESC[31m">> \o s \o <<"ESC[0m">> ELSE s

coloredHeader(role, ts) ==
    colorize(TRUE, titleCase(role)) \o <<" ", "MIDDOT", " ">> \o colorize(TRUE, headerTime(ts))

RECURSIVE wrapLines(_, _)
wrapLines(lines, w) ==
    IF lines = <<>> THEN <<>> ELSE wrapText(Head(lines), w) \o wrapLines(Tail(lines), w)

RECURSIVE contentMaxWidth(_)
contentMaxWidth(lines) ==
    IF lines = <<>> THEN 0 ELSE Max(visibleWidth(Head(lines)), contentMaxWidth(Tail(lines)))

Repeat(tok, n) == [i \in 1..n |-> tok]

\* variant: a body line is not padded to the interior width
renderBubbleBodyLineUnpadded(line, bubbleWidth, leftPad, useColor) ==
    Repeat(" ", leftPad) \o colorize(useColor, <<"|">>) \o <<" ">> \o line \o <<" ">>
        \o colorize(useColor, <<"|">>)

renderBubbleBodyLine(line, bubbleWidth, leftPad, useColor) ==
    LET tooWide == visibleWidth(line) > bubbleWidth
        shown == IF tooWide THEN truncateToWidth(line, bubbleWidth) ELSE line
        displayLen == IF tooWide THEN bubbleWidth ELSE visibleWidth(line)
        border == colorize(useColor, <<"|">>)
    IN  Repeat(" ", leftPad) \o border \o <<" ">> \o shown
            \o Repeat(" ", bubbleWidth - displayLen) \o <<" ">> \o border

renderChatBubble(role, ts, blockText, totalWidth, padding, useColor) ==
    LET available == maxContentWidth(totalWidth, padding)
        headerText == chatHeader(role, ts)
        wrapped == wrapLines(<<headerText>> \o RenderEventLines(blockText), available)
        bubbleWidth == bubbleWidthOf(contentMaxWidth(wrapped), totalWidth, padding)
        leftPad == computeLeftPad(totalWidth, bubbleWidth, padding,
                                  alignmentForRole(<<role>>))
        content == IF useColor /\ Len(wrapped) > 0 /\ wrapped[1] = headerText
                   THEN <<coloredHeader(role, ts)>> \o Tail(wrapped)
                   ELSE wrapped
        top == Repeat(" ", leftPad) \o <<"TOPLEFT">> \o Repeat("HLINE", bubbleWidth + 2) \o <<"TOPRIGHT">>
        bottom == Repeat(" ", leftPad) \o <<"BOTTOMLEFT">> \o Repeat("HLINE", bubbleWidth + 2) \o <<"BOTTOMRIGHT">>
    IN  [lines |-> <<top>>
                    \o [k \in 1..Len(content) |->
                          renderBubbleBodyLine(content[k], bubbleWidth, leftPad, useColor)]
                    \o <<bottom>>,
         content |-> wrapped,
         bubbleWidth |-> bubbleWidth,
         leftPad |-> leftPad]

InitBubble ==
    /\ pc = "bubble"
    /\ text \in SeqsUpTo({"a", " ", "W"}, MaxBody)
    /\ width \in {0} \cup 10..MaxTotalWidth
    /\ args \in [role : BubbleRoles, ts : {0, 1}, useColor : BOOLEAN]
    /\ res = <<>> /\ pager = NoPager
    /\ family = "codex" /\ opts = NoOpts /\ io = {} /\ file = <<>> /\ pos = 0
    /\ filters = NoFilters /\ ring = newEventRing(0) /\ collected = <<>> /\ count = 0
    /\ out = <<>> /\ err = "" /\ delivered = <<>> /\ accepted = <<>> /\ pushed = <<>>

\* renderChatTranscript for one event
RenderChatBubble ==
    /\ pc = "bubble"
    /\ res' = renderChatBubble(args.role, args.ts, text, transcriptWidth(width), BasePadding,
                               args.useColor)
    /\ pc' = "rendered"
    /\ UNCHANGED <<family, opts, io, file, pos, filters, ring, collected, count, out, err,
                   delivered, accepted, pushed, text, width, args, pager>>

SpecBubble == InitBubble /\ [][RenderChatBubble]_vars

(***************************************************************************)
(* Properties                                                              *)
(***************************************************************************)
EventAt(i) == parseEvent(family, i, file[i]).event

Decodes(i) == parseEvent(family, i, file[i]).err = ""

OutLines == [k \in 1..Len(out) |-> out[k].line]

NoFilterArgs == FilterArgs(opts) = <<<<>>, <<>>, <<>>, <<>>>>

InFilter(f, v) == f.nil \/ v \in f.set

\* membership in every applicable non-nil set
PassesApplicableSets(e, f) ==
    /\ InFilter(f.entryTypes, e.kind)
    /\ e.kind = "response_item" =>
         InFilter(f.responseItemTypes, e.ptype) /\ InFilter(f.payloadRoles, e.role)
    /\ e.kind = "event_msg" => InFilter(f.eventMsgTypes, e.ptype)

\* C1: with no filter arguments and without --all, only response_item
\* records of payload type message and role user or assistant are written,
\* in every output format.
C1_DefaultFiltersOnlyMessages ==
    (family = "codex" /\ pc # "idle" /\ ~opts.rawFile /\ ~opts.allFilter /\ NoFilterArgs) =>
        \A k \in 1..Len(out) :
            /\ out[k].raw.type = "response_item"
            /\ out[k].raw.ptype = "message"
            /\ out[k].raw.role \in {"user", "assistant"}

\* C2: an event passes eventMatchesFilters exactly when it is a member of
\* every non-nil inclusion set that applies to its kind.
C2_MatchIffInEveryApplicableSet ==
    \A k \in 1..Len(delivered) :
        (delivered[k] \in Range(accepted)) <=> PassesApplicableSets(EventAt(delivered[k]), filters)

\* C3: in Family A the first line that fails to decode makes IterateEvents
\* return its error; the callback runs neither for that line nor for any
\* later line.
C3_CodexAbortsAtFirstBadLine ==
    (family = "codex" /\ pos >= 1) =>
        /\ \A k \in 1..Len(delivered) : \A j \in 1..delivered[k] : Decodes(j)
        /\ (pc = "done" /\ pos <= Len(file) /\ ~Decodes(pos)) =>
               err = parseEvent(family, pos, file[pos]).err
        /\ (pc = "done" /\ \E j \in 1..Len(file) : ~Decodes(j)) => err # ""

C3_Witness ==
    /\ family = "codex" /\ pc = "done" /\ err = "unmarshal record"
    /\ Len(delivered) >= 1 /\ pos < Len(file)

\* the line numbers up to n whose line decodes, in file order
DecodableUpTo(n) == SelectSeq([i \in 1..n |-> i], LAMBDA i : Decodes(i))

\* C4: in Family B a line that fails to decode neither reaches the callback
\* nor produces an error: the callback sequence is exactly the decodable
\* lines in order, and the call returns nil when the callback never fails
\* and the file is read to its end.
C4_ClaudeSkipsBadLines ==
    (family = "claude" /\ pos >= 1) =>
        /\ delivered = DecodableUpTo(IF err = ErrWrite THEN pos ELSE pos - 1)
        /\ err \in {"", ErrWrite}
        /\ (pc = "done" /\ pos > Len(file)) => err = ""

C4_Witness ==
    /\ family = "claude" /\ pc = "done" /\ err = "" /\ pos > Len(file)
    /\ \E i \in 1..Len(file) : \E j \in 1..Len(file) : \E k \in 1..Len(file) :
         /\ i < j /\ j < k
         /\ i \in Range(delivered) /\ ~Decodes(j) /\ k \in Range(delivered)

\* C5: events are delivered in file order, at most once per line, and what
\* is written keeps that order.
C5_FileOrderPreserved ==
    /\ IsStrictlyIncreasing(delivered)
    /\ IsStrictlyIncreasing(OutLines)
    /\ ~opts.rawFile => Range(OutLines) \subseteq Range(accepted)

C5_Witness ==
    /\ pc = "done" /\ ~opts.rawFile /\ opts.maxEvents > 0
    /\ Len(accepted) > opts.maxEvents /\ Len(out) >= 2

\* C6: for a ring of capacity N >= 1, slice returns exactly the last
\* min(k, N) of the k pushed events, in push order.
C6_RingKeepsLastN ==
    Len(ring.data) >= 1 =>
        /\ slice(ring) = LastN(pushed, Len(ring.data))
        /\ pc = "sliced" => res = LastN(pushed, Len(ring.data))

C6_Witness ==
    /\ pc = "sliced" /\ Len(ring.data) = 2 /\ Len(pushed) >= 4 /\ Len(res) = 2

ValidationErrors ==
    {ErrUnknownEntry, ErrUnknownResponse, ErrUnknownEventMsg, ErrUnknownRole, ErrUnsupported}

\* C8: a validation error (unknown filter token, unrecognised format) is
\* reported before the session file or the sessions directory is opened or
\* read and before anything is written.
C8_ValidationBeforeIO ==
    err \in ValidationErrors => (io \cap {"open", "walk"} = {} /\ out = <<>>)

\* C9: for a width W >= 1, every line wrapText produces has display width
\* at most W.
C9_WrappedLinesFit ==
    (pc = "wrapped" /\ width >= 1) =>
        \A k \in 1..Len(res) : StringWidth(res[k]) <= width

\* C9 (amended): for W >= 2 every line has display width at most W; for
\* W = 1 the only wider line is a wide glyph alone on its line.
C9_WrappedLinesFitOrSingleWideGlyph ==
    (pc = "wrapped" /\ width >= 1) =>
        \A k \in 1..Len(res) :
            \/ StringWidth(res[k]) <= width
            \/ width = 1 /\ res[k] = <<"W">>

C9_Witness ==
    /\ pc = "wrapped" /\ width = 2 /\ Len(res) >= 2
    /\ \E k \in 1..Len(res) : "W" \in Range(res[k])
    /\ \E k \in 1..Len(res) : "z" \in Range(res[k])

IsPrefix(a, b) == Len(a) <= Len(b) /\ SubSeq(b, 1, Len(a)) = a

\* C10: truncating a coloured line wider than w keeps every escape
\* sequence of the input, in order, including those after the cut, and
\* drops only printable runes beyond the limit.
C10_TruncateKeepsEveryEscape ==
    (pc = "truncated" /\ visibleWidth(text) > width) =>
        /\ OnlyAnsi(res) = OnlyAnsi(text)
        /\ IsPrefix(StripAnsi(res), StripAnsi(text))
        /\ visibleWidth(res) <= width

\* C11: for every terminal width, bubble width and base padding, the left pad
\* of a right-aligned (user) bubble is at least the left pad of a centred
\* (tool/system) bubble and of a left-aligned (assistant) bubble of the same
\* bubble width.
C11_RightPadIsLargest ==
    pc = "padded" =>
        computeLeftPad(args.totalWidth, res.bubbleWidth, args.padding, "right") >= res.leftPad

C11_Witness ==
    /\ pc = "padded" /\ args.align = "center"
    /\ res.leftPad > args.padding
    /\ res.leftPad < computeLeftPad(args.totalWidth, res.bubbleWidth, args.padding, "right")

\* C12 (as stated): for every terminal width and bubble width, the left pad of
\* a left-aligned (assistant) bubble equals the base padding of 2 columns.
C12_LeftPadIsBasePadding ==
    (pc = "padded" /\ args.align = "left" /\ args.padding = BasePadding) =>
        res.leftPad = BasePadding

\* C12 (amended): the left pad of a left-aligned (assistant) bubble is the
\* base padding of 2 columns capped by the room left beside the bubble,
\* max(0, terminal width - bubble width - 4); the renderer leaves that room,
\* so the pad is exactly 2, for every terminal width of at least 14 columns.
C12_LeftPadIsBasePaddingCappedByRoom ==
    (pc = "padded" /\ args.align = "left" /\ args.padding = BasePadding) =>
        /\ res.leftPad = Min(BasePadding,
                             Max(args.totalWidth - res.bubbleWidth - BorderWidth, 0))
        /\ args.totalWidth >= 14 => res.leftPad = BasePadding

C12_Witness ==
    /\ pc = "padded" /\ args.align = "left" /\ args.padding = BasePadding
    /\ args.totalWidth = 13 /\ res.bubbleWidth = 8 /\ res.leftPad = 1

\* C20: in both source families, decoding a content value that is the bare
\* string s and decoding the one-element array holding a single text block
\* with text s give the identical ContentBlock sequence, one block of type
\* text with text s, for every s.
C20_StringEqualsSingleTextBlock ==
    /\ (pc = "decoded" /\ args.content.shape = "string") =>
         /\ res = <<ContentBlock("text", Str(args.content.str))>>
         /\ res = DecodeContentOf(family, JArray(<<Blk("text", args.content.str)>>))
    /\ (pc = "decoded" /\ \E s \in Strings : args.content = JArray(<<Blk("text", s)>>)) =>
         res = DecodeContentOf(family, JString(args.content.items[1].text))

C20_Witness ==
    /\ pc = "decoded" /\ family = "codex"
    /\ args.content = JString("hi")
    /\ res = <<ContentBlock("text", <<"hi">>)>>

\* C13: no Family A record with a non-empty payload decodes to an event with
\* zero content blocks, whatever its entry kind; for an unknown entry kind the
\* whole payload becomes exactly one content block of type json.
C13_NonEmptyPayloadHasContent ==
    (pc = "parsed" /\ args.payload.shape # "absent" /\ ~res.err) =>
        /\ Len(res.content) >= 1
        /\ args.kind \notin KnownKinds =>
             res.content = <<ContentBlock("json", RawJSON(args.payload))>>

\* C14: ReadSessionMeta never succeeds with an absent start time: when the
\* record selected as metadata carries no timestamp (in its payload or on the
\* envelope, the legacy shape of Family A included), extraction fails instead
\* of returning a SessionMeta whose startedAt is the zero value.
C14_MetaHasStartTime ==
    (pc = "reported" /\ res.meta.ok) => res.meta.startedAt # 0

\* C15: the message count reported for a Family B session equals the number
\* of entries whose top-level kind is user or assistant; summary entries and
\* nested tool_use / tool_result blocks never add to it.
C15_CountIsUserAndAssistantEntries ==
    (pc = "reported" /\ family = "claude" /\ res.err = "") =>
        res.messageCount =
            Cardinality({i \in 1..Len(file) :
                           file[i].json /\ file[i].type \in {"user", "assistant"}})

\* C16: Family B FirstUserSummary returns the text of the first user message
\* whenever the file holds a user message with non-empty text, wherever a
\* summary entry stands in the file; the text of a summary entry is used only
\* when there is no such user message.
C16_SummaryIsFirstUserMessage ==
    (pc = "reported" /\ family = "claude" /\ res.err = "") =>
        LET withText == {i \in 1..Len(file) : UserTextAt(file, i)}
            summaries == {i \in 1..Len(file) :
                            claudeParseEvent(i, file[i]).err = ""
                              /\ eventSummaryText(file[i]) # <<>>}
        IN  /\ withText # {} =>
                 \E i \in withText :
                    /\ \A k \in withText : i <= k
                    /\ res.summary = buildSummaryText(eventContent("claude", file[i]))
            /\ (withText = {} /\ summaries # {}) =>
                 \E i \in summaries : res.summary = eventSummaryText(file[i])

\* C19: the reported duration is max(0, end - start) in whole seconds, start
\* being the session's startedAt and end the largest non-zero event timestamp
\* in the file; it is 0 when no event has a timestamp or the latest one
\* precedes the start.
C19_DurationIsEndMinusStart ==
    (pc = "reported" /\ res.err = "") =>
        LET stamps == {parseEvent(family, i, file[i]).event.ts :
                          i \in {k \in 1..Len(file) : parseEvent(family, k, file[k]).err = ""}}
                        \ {0}
            end == IF stamps = {} THEN 0 ELSE CHOOSE m \in stamps : \A s \in stamps : s <= m
        IN  res.duration =
                IF end = 0 THEN 0
                ELSE Max(0, end - res.meta.startedAt) \div TicksPerSecond

\* C17: a session can be resolved from a prefix of its id: when the argument
\* is neither an existing file path nor a path relative to the sessions
\* directory and some session file under the sessions directory has an id
\* that starts with the argument, resolution returns the path of such a file
\* instead of a not-found error.
C17_PrefixOfIdResolves ==
    LET matching == {i \in 1..Len(args.dir) :
                        /\ args.dir[i].jsonl /\ args.dir[i].metaOk
                        /\ IsPrefix(args.arg, args.dir[i].id)}
    IN  (/\ pc = "resolved" /\ args.arg # <<>>
         /\ args.statArg # "file" /\ args.statRel # "file"
         /\ matching # {}) =>
            /\ res.err = ""
            /\ \E i \in matching : res.path = PathOf("id", i)

\* C18: in raw format the output is exactly the sequence of original input
\* lines of the events that survive filtering, each written verbatim and in
\* file order, one per output line; with the show-everything override every
\* decoded record of the file, session metadata included, is written, so a
\* file of n records yields n lines.  (With MaxEvents = N > 0 the last N
\* survivors are meant.)
C18_RawOutputIsSurvivingLines ==
    (pc = "done" /\ err = "" /\ ~opts.rawFile /\ formatMode(opts.format) = "raw") =>
        LET surviving ==
                SelectSeq(delivered, LAMBDA i : PassesApplicableSets(EventAt(i), filters))
            selected == IF opts.maxEvents > 0 THEN LastN(surviving, opts.maxEvents)
                        ELSE surviving
        IN  /\ Len(out) = Len(selected)
            /\ \A k \in 1..Len(out) :
                  out[k].line = selected[k] /\ out[k].raw = file[selected[k]]
            /\ (opts.allFilter /\ opts.maxEvents <= 0) =>
                  Len(out) = Cardinality({i \in 1..Len(file) : Decodes(i)})

RECURSIVE Concat(_)
Concat(lines) == IF lines = <<>> THEN <<>> ELSE Head(lines) \o Concat(Tail(lines))

NonSpace(s) == SelectSeq(s, LAMBDA tok : tok # " ")

\* C21: for a width W >= 1 and any text, the lines produced by wrapping
\* (wrapText of the chat renderer, wrapBody of the formatter), concatenated
\* without the inserted breaks, hold the characters of the original words in
\* their original order: none is dropped, duplicated or reordered.
C21_WrapKeepsWords ==
    (pc \in {"wrapped", "bodyWrapped"} /\ width >= 1) =>
        /\ NonSpace(Concat(res)) = NonSpace(text)
        /\ pc = "wrapped" => Concat(res) = TrimRightSpaces(text)
        /\ pc = "bodyWrapped" => NonSpace(Concat(res)) = Concat(Fields(text))

C21_Witness ==
    /\ pc = "wrapped" /\ width = 2 /\ Len(res) = 2
    /\ Len(Fields(text)) = 2 /\ Len(Fields(text)[2]) = 2
    /\ NonSpace(Concat(res)) = NonSpace(text)

\* C22: truncateToWidth is a no-op on short input and idempotent: a text whose
\* visible width is at most w is returned unchanged, and truncating a result
\* again with the same w returns it unchanged.
C22_TruncateIsIdempotent ==
    pc = "truncated" =>
        /\ visibleWidth(text) <= width => res = text
        /\ truncateToWidth(res, width) = res

C22_Witness ==
    /\ pc = "truncated" /\ visibleWidth(text) > width
    /\ StripAnsi(res) # <<>> /\ OnlyAnsi(res) # <<>> /\ res # text
    /\ truncateToWidth(res, width) = res

RoleOrKind(event) == IF event.role # "" THEN event.role ELSE event.kind

\* C23: the alignment of a bubble is a function of the event's raw role/kind
\* only (the role if non-empty, otherwise the kind), whatever the payload type
\* and the decorated title: user gives right; assistant, session_meta,
\* event_msg and turn_context give left; tool and system give center; every
\* other value gives left.
C23_AlignmentFromRawRole ==
    pc = "aligned" =>
        LET key == RoleOrKind(res.event) IN
        res.align = CASE key = "user" -> "right"
                      [] key \in {"assistant", "session_meta", "event_msg", "turn_context"} -> "left"
                      [] key \in {"tool", "system"} -> "center"
                      [] OTHER -> "left"

C23_Witness ==
    /\ pc = "aligned" /\ res.event.role = "user" /\ res.event.ptype = "tool"
    /\ res.label # res.rawRole /\ res.align = "right"

IsAllToken(arg) == arg \in {<<"all">>, <<"ALL">>}

IsBlankArg(arg) == arg \in {<<>>, <<" ">>}

\* the argument and the resulting set of each filter dimension
Dimensions ==
    << [arg |-> args.entryArg, set |-> res.filters.entryTypes],
       [arg |-> args.responseTypeArg, set |-> res.filters.responseItemTypes],
       [arg |-> args.eventMsgTypeArg, set |-> res.filters.eventMsgTypes],
       [arg |-> args.payloadRoleArg, set |-> res.filters.payloadRoles] >>

\* C24: in every filter dimension the single token all (in any letter case)
\* gives the unconstrained (nil) set, and an empty or blank argument gives the
\* dimension's default set, which is never the unconstrained one.
C24_AllAndBlankAreDistinct ==
    (pc = "built" /\ res.err = "") =>
        \A d \in 1..4 :
            /\ IsAllToken(Dimensions[d].arg) => Dimensions[d].set.nil
            /\ IsBlankArg(Dimensions[d].arg) => ~Dimensions[d].set.nil

\* metadata or summary extraction of a walked file fails
ExtractionFails(entry) ==
    /\ entry.jsonl
    /\ LET meta == ReadSessionMeta(family, entry.content) IN
         \/ ~meta.ok
         \/ /\ ~(args.opts.after # 0 /\ meta.startedAt < args.opts.after)
            /\ ~(args.opts.before # 0 /\ meta.startedAt > args.opts.before)
            /\ \/ FirstUserSummary(family, entry.content).err # ""
               \/ countEvents(family, entry.content, 1,
                              [err |-> "", count |-> 0, lastTimestamp |-> 0]).err # ""

\* C25: in session listing a file whose metadata or summary extraction fails
\* contributes exactly one warning and no summary, the summaries are those the
\* listing produces for the other files alone, and the listing returns no
\* error.
C25_FailingFileOnlyWarns ==
    pc = "listed" =>
        /\ res.err = ""
        /\ \A i \in 1..Len(args.dir) :
             LET warned == Cardinality({k \in 1..Len(res.warnings) : res.warnings[k].path = i})
             IN  IF ExtractionFails(args.dir[i])
                 THEN warned = 1 /\ \A k \in 1..Len(res.summaries) : res.summaries[k].path # i
                 ELSE warned = 0
        /\ res.summaries =
             ListSessions(family, SelectSeq(args.dir, LAMBDA e : ~ExtractionFails(e)),
                          args.opts).summaries

C25_Witness ==
    /\ pc = "listed" /\ Len(args.dir) = 2
    /\ ExtractionFails(args.dir[1]) /\ ReadSessionMeta(family, args.dir[1].content).ok
    /\ Len(res.warnings) = 1 /\ Len(res.summaries) = 1 /\ res.summaries[1].path = 2

\* C26: in text format the events written are numbered 1, 2, 3, ...
\* consecutively in output order, whatever events were filtered out or evicted
\* from the --max window before them.
C26_TextNumbersAreConsecutive ==
    (~opts.rawFile /\ formatMode(opts.format) = "text") =>
        \A k \in 1..Len(out) : out[k].n = k

C26_Witness ==
    /\ pc = "done" /\ err = "" /\ ~opts.rawFile /\ formatMode(opts.format) = "text"
    /\ opts.maxEvents > 0 /\ Len(delivered) > opts.maxEvents
    /\ Len(out) = 2 /\ out[1].line > 1 /\ out[2].n = 2

\* C27: pipeThroughPager cannot deadlock: with the writer goroutine feeding
\* the pager's stdin while the caller waits for the pager process, the call
\* eventually returns, both when the pager consumes all input and when it
\* exits before reading all of it, for any output size relative to the pipe
\* buffer capacity.
C27_PagerCallReturns == (pc = "pager") ~> (pc = "returned")

C27_Witness ==
    /\ pc = "returned" /\ args.startOk
    /\ args.size > args.capacity /\ pager.read < args.size /\ pager.toWrite > 0
    /\ pager.writer = "done" /\ ~pager.writeOpen

\* C28: for the same file, filters and MaxEvents value (negative values
\* included) the text, raw and chat formats write the same sequence of
\* events: every event that passed the filters when MaxEvents is not
\* positive, otherwise the last MaxEvents of them.
C28_FormatsSelectSameEvents ==
    (pc = "done" /\ err = "" /\ ~opts.rawFile
        /\ formatMode(opts.format) \in {"text", "raw", "chat"}) =>
        OutLines = IF opts.maxEvents > 0 THEN LastN(accepted, opts.maxEvents) ELSE accepted

\* view.Run ended with the error of a Family A line that failed to decode
DecodeErrorReturned ==
    /\ family = "codex" /\ pc = "done" /\ ~opts.rawFile
    /\ pos \in 1..Len(file)
    /\ codexParseEvent(pos, file[pos]).err # ""
    /\ err = codexParseEvent(pos, file[pos]).err

\* C29: when view.Run returns the error of a Family A line that failed to
\* decode, no event of the file has been written to the output, whatever the
\* output format and the MaxEvents value.
C29_NoOutputOnDecodeError ==
    DecodeErrorReturned => out = <<>>

\* C30: for every terminal width >= 12 and any event content, every line of
\* a rendered chat bubble (top border, each body line, bottom border) has
\* display width leftPad + interior width + 4, which never exceeds the
\* terminal width, and the interior width never exceeds the available content
\* width.
C30_BubbleLinesFitTerminal ==
    (pc = "rendered" /\ transcriptWidth(width) >= 12) =>
        /\ \A k \in 1..Len(res.lines) :
             /\ visibleWidth(res.lines[k]) = res.leftPad + res.bubbleWidth + BorderWidth
             /\ visibleWidth(res.lines[k]) <= transcriptWidth(width)
        /\ res.bubbleWidth <= maxContentWidth(transcriptWidth(width), BasePadding)

C30_Witness ==
    /\ pc = "rendered" /\ width = 12 /\ args.useColor /\ args.role = "user"
    /\ Len(res.content) >= 3 /\ "W" \in Range(text)
    /\ res.bubbleWidth = 8 /\ res.leftPad = 0
    /\ \A k \in 1..Len(res.lines) : visibleWidth(res.lines[k]) = 12
====
